---- MODULE Spec2Model ----
(***************************************************************************)
(* Model of the light-service reading store of quentinrf/plant-monitor:    *)
(* the in-memory and the SQLite ReadingRepository, and the gRPC handler    *)
(* that sits on top of a repository and a sensor.                          *)
(*                                                                         *)
(* The process runs on one repository, chosen by REPO_TYPE; a third         *)
(* configuration runs the two repositories side by side, every operation   *)
(* applied to both with the same inputs, as a conformance suite does.      *)
(* A *domain.LightReading is modelled by the object it points to: apart    *)
(* from the id that SaveReading writes through the pointer, no code of the *)
(* repository changes a reading after it was built.                        *)
(*                                                                         *)
(* Time is counted in ticks, TicksPerSec ticks to the second, so that the  *)
(* second-resolution layout "2006-01-02 15:04:05" used by the SQLite       *)
(* adapter is a real truncation.                                           *)
(***************************************************************************)
EXTENDS Integers, Sequences, FiniteSets, TLC

\* ---------------------------------------------------------------- bounds
MaxTime == 2
TicksPerSec == 2
MaxID == 2
\* the calls of Recorder.Start that are followed
MaxStarts == 2

\* ------------------------------------------------------------- constants
Backends == {"memory", "sqlite"}
\* Lux is a float64.  The numbers among its values are modelled by integers;
\* NaN, which is no number and compares false with everything, is the one
\* value written here that no lux input otherwise takes.
NaN == -999
\* lux values a client or the sensor can supply; -10 is the negative one
LuxInputs == {-10, 100, 500, NaN}
\* the lux value of a reading a caller builds to seed a store
SeedLux == {100}
\* durations handed to DeleteOldReadings
Ages == 0..MaxTime
Times == 0..MaxTime

NoReading == [none |-> TRUE]

VARIABLES
    now,      \* time.Now(), in ticks
    repo,     \* repo[w]: the repository of backend w
    held,     \* held[w]: the reading a caller of backend w built, saved and kept
    resp,     \* resp[w]: what the last call on backend w did and returned
    repoType, \* "memory" or "sqlite" (config.RepoType), or "both" side by side
    aligned,  \* history of a side-by-side run: every save and every sweep so far
              \* happened at a time that is a whole second
    rec,      \* the Recorder: where each call of Start stands, its tickers,
              \* the context and the last line logged
    proc      \* the rest of the process: whether main has closed the database,
              \* the RWMutex of the memory repository, and the goroutines whose
              \* calls are followed statement by statement

vars == <<now, repo, held, resp, repoType, aligned, rec, proc>>

\* ------------------------------------------------------------------ time
\* t.Format("2006-01-02 15:04:05"): the text names a whole second
FormatTime(t) == t \div TicksPerSec

\* time.Parse("2006-01-02 15:04:05", s)
ParseTime(s) == s * TicksPerSec

\* t.Unix()
Unix(t) == t \div TicksPerSec

\* t.After(u) / t.Before(u)
After(t, u) == t > u

Before(t, u) == t < u

Aligned(t) == t % TicksPerSec = 0

\* --------------------------------------------------------------- float64
\* a < b, a >= b, a > b and a + b on float64
FloatLt(a, b) == a # NaN /\ b # NaN /\ a < b

FloatGe(a, b) == a # NaN /\ b # NaN /\ a >= b

FloatGt(a, b) == a # NaN /\ b # NaN /\ a > b

FloatAdd(a, b) == IF a = NaN \/ b = NaN THEN NaN ELSE a + b

\* ---------------------------------------------------------------- domain
\* mutant of NewLightReading: zero is rejected with the negative values
NewLightReadingPositive(lux, t) ==
    IF ~FloatGt(lux, 0)
    THEN [err |-> "ErrInvalidLux", reading |-> NoReading]
    ELSE [err |-> "nil", reading |-> [ID |-> 0, Lux |-> lux, Timestamp |-> t]]

\* domain.NewLightReading(lux), called when time.Now() = t
NewLightReading(lux, t) ==
    IF FloatLt(lux, 0)
    THEN [err |-> "ErrInvalidLux", reading |-> NoReading]
    ELSE [err |-> "nil", reading |-> [ID |-> 0, Lux |-> lux, Timestamp |-> t]]

IsLowLight(r) == FloatLt(r.Lux, 200)

\* mutant of IsMediumLight: the upper boundary is taken in
IsMediumLightClosed(r) == FloatGe(r.Lux, 200) /\ ~FloatGt(r.Lux, 2500)

IsMediumLight(r) == FloatGe(r.Lux, 200) /\ FloatLt(r.Lux, 2500)

\* mutant of IsHighLight: the lower boundary is left out
IsHighLightStrict(r) == FloatGt(r.Lux, 2500)

IsHighLight(r) == FloatGe(r.Lux, 2500)

LightCategory(r) ==
    IF IsLowLight(r) THEN "Low Light"
    ELSE IF IsMediumLight(r) THEN "Medium Light"
    ELSE "High Light"

\* ------------------------------------------------------------- utilities
\* all orders in which the elements of a finite set can be listed
Perms(S) ==
    {p \in [1..Cardinality(S) -> S] : \A x \in S : \E i \in DOMAIN p : p[i] = x}

\* m with key k bound to v (Go: m[k] = v)
MapPut(m, k, v) == [i \in (DOMAIN m) \cup {k} |-> IF i = k THEN v ELSE m[i]]

\* m without the keys in ks (Go: delete(m, k))
MapDrop(m, ks) == [i \in (DOMAIN m) \ ks |-> m[i]]

EmptyMap == [i \in {} |-> 0]

\* ------------------------------------------- memory.ReadingRepository
\* State of the memory backend: [readings, nextID]; readings maps an id to
\* the reading stored under it.

\* memory.NewReadingRepository()
MemNewReadingRepository == [readings |-> EmptyMap, nextID |-> 1]

\* mutant of MemBumpNextID: the counter is not advanced
MemKeepNextID(n) == n

\* the counter after an id was handed out (r.nextID++)
MemBumpNextID(n) == n + 1

\* memory SaveReading(ctx, reading); reading is the caller's object as the
\* call leaves it
MemSaveReading(st, r) ==
    LET unset == r.ID = 0
        id    == IF unset THEN st.nextID ELSE r.ID
        saved == [r EXCEPT !.ID = id]
    IN  [st      |-> [readings |-> MapPut(st.readings, id, saved),
                      nextID   |-> IF unset THEN MemBumpNextID(st.nextID) ELSE st.nextID],
         err     |-> "nil",
         reading |-> saved]

\* memory GetReading(ctx, id)
MemGetReading(st, id) ==
    IF id \notin DOMAIN st.readings
    THEN [err |-> "ErrReadingNotFound", reading |-> NoReading]
    ELSE [err |-> "nil", reading |-> st.readings[id]]

\* the filter of memory GetReadingsInRange
MemInRange(ts, start, end) == After(ts, start) /\ Before(ts, end)

\* mutant of MemSortSlice: the results are left in map iteration order
MemNoSortSlice(st, ids) == Perms(ids)

\* sort.Slice(results, Timestamp.Before): map iteration order is random and
\* the sort is not stable, so every order that the comparison accepts can
\* come out
MemSortSlice(st, ids) ==
    {p \in Perms(ids) :
        \A i, j \in DOMAIN p :
            i < j => ~Before(st.readings[p[j]].Timestamp, st.readings[p[i]].Timestamp)}

\* memory GetReadingsInRange(ctx, start, end): the possible results
MemGetReadingsInRange(st, start, end) ==
    LET ids == {id \in DOMAIN st.readings :
                   MemInRange(st.readings[id].Timestamp, start, end)}
    IN  {[err      |-> "nil",
          readings |-> [i \in DOMAIN p |-> st.readings[p[i]]]] :
            p \in MemSortSlice(st, ids)}

\* mutant of MemLatestIDs: the scan compares with Before instead of After
MemEarliestIDs(st) ==
    {id \in DOMAIN st.readings :
        \A o \in DOMAIN st.readings :
            ~Before(st.readings[o].Timestamp, st.readings[id].Timestamp)}

\* the ids memory GetLatestReading can end its scan on: latest is replaced
\* only by a reading that is After it, so the scan ends on the first reading
\* met that no other reading is After
MemLatestIDs(st) ==
    {id \in DOMAIN st.readings :
        \A o \in DOMAIN st.readings :
            ~After(st.readings[o].Timestamp, st.readings[id].Timestamp)}

\* memory GetLatestReading(ctx): the possible results
MemGetLatestReading(st) ==
    IF DOMAIN st.readings = {}
    THEN {[err |-> "ErrReadingNotFound", reading |-> NoReading]}
    ELSE {[err |-> "nil", reading |-> st.readings[id]] : id \in MemLatestIDs(st)}

\* the test of memory DeleteOldReadings
MemIsOld(ts, cutoff) == Before(ts, cutoff)

\* memory DeleteOldReadings(ctx, olderThan), called when time.Now() = t
MemDeleteOldReadings(st, olderThan, t) ==
    LET cutoff == t - olderThan
        old    == {id \in DOMAIN st.readings : MemIsOld(st.readings[id].Timestamp, cutoff)}
    IN  [st  |-> [st EXCEPT !.readings = MapDrop(st.readings, old)],
         err |-> "nil"]

\* ------------------------------------------- sqlite.ReadingRepository
\* State of the SQLite backend: [rows, seq].  rows is the table
\* light_readings(id, lux, timestamp); seq is the AUTOINCREMENT high-water
\* mark (sqlite_sequence).  The timestamp column holds the time.Time the
\* adapter binds (SaveReading hands over reading.Timestamp unformatted);
\* query arguments are formatted to whole seconds and compared with it
\* chronologically.

\* sqlite.NewReadingRepository(dbPath) on a new file
SqlNewReadingRepository == [rows |-> {}, seq |-> 0]

\* the timestamp column scanned into a string and parsed with the
\* second-resolution layout
SqlScanTimestamp(col) == ParseTime(FormatTime(col))

\* a row scanned into a domain.LightReading
SqlScanRow(row) ==
    [ID |-> row.id, Lux |-> row.lux, Timestamp |-> SqlScanTimestamp(row.timestamp)]

\* mutant of SqlSaveReading: the id column without AUTOINCREMENT, a new row
\* gets the largest id of the table plus one
SqlSaveReadingRowid(st, r, io) ==
    IF io = "fail"
    THEN [st |-> st, err |-> "StorageError", reading |-> r]
    ELSE LET RECURSIVE MaxRowid(_)
             MaxRowid(n) == IF n = 0 \/ \E row \in st.rows : row.id = n
                            THEN n ELSE MaxRowid(n - 1)
             id == MaxRowid(st.seq) + 1
         IN  [st      |-> [rows |-> st.rows \cup {[id        |-> id,
                                                   lux       |-> r.Lux,
                                                   timestamp |-> r.Timestamp]},
                           seq  |-> id],
              err     |-> "nil",
              reading |-> [r EXCEPT !.ID = id]]

\* sqlite SaveReading(ctx, reading); io = "fail" is ExecContext returning an
\* error (the go-sqlite3 LastInsertId never does)
SqlSaveReading(st, r, io) ==
    IF io = "fail"
    THEN [st |-> st, err |-> "StorageError", reading |-> r]
    ELSE LET id == st.seq + 1
         IN  [st      |-> [rows |-> st.rows \cup {[id        |-> id,
                                                   lux       |-> r.Lux,
                                                   timestamp |-> r.Timestamp]},
                           seq  |-> id],
              err     |-> "nil",
              reading |-> [r EXCEPT !.ID = id]]

\* sqlite GetReading(ctx, id)
SqlGetReading(st, id, io) ==
    IF io = "fail"
    THEN [err |-> "StorageError", reading |-> NoReading]
    ELSE IF \A row \in st.rows : row.id # id
    THEN [err |-> "ErrReadingNotFound", reading |-> NoReading]
    ELSE [err |-> "nil",
          reading |-> SqlScanRow(CHOOSE row \in st.rows : row.id = id)]

\* WHERE timestamp >= ? AND timestamp <= ?, the arguments being
\* start.Format(...) and end.Format(...)
SqlInRange(col, startText, endText) ==
    col >= ParseTime(startText) /\ col <= ParseTime(endText)

\* ORDER BY timestamp ASC: idx_timestamp is walked forwards, rows with the
\* same timestamp come in rowid order
SqlOrderByTimestampAsc(rws) ==
    CHOOSE p \in Perms(rws) :
        \A i, j \in DOMAIN p :
            i < j => \/ p[i].timestamp < p[j].timestamp
                     \/ p[i].timestamp = p[j].timestamp /\ p[i].id < p[j].id

\* sqlite GetReadingsInRange(ctx, start, end): the possible results
SqlGetReadingsInRange(st, start, end, io) ==
    IF io = "fail"
    THEN {[err |-> "StorageError", readings |-> <<>>]}
    ELSE LET sel == {row \in st.rows :
                        SqlInRange(row.timestamp, FormatTime(start), FormatTime(end))}
             p   == SqlOrderByTimestampAsc(sel)
         IN  {[err |-> "nil", readings |-> [i \in DOMAIN p |-> SqlScanRow(p[i])]]}

\* ORDER BY timestamp DESC LIMIT 1: idx_timestamp is walked backwards
SqlOrderByTimestampDescLimit1(rws) ==
    CHOOSE row \in rws :
        \A o \in rws :
            \/ o.timestamp < row.timestamp
            \/ o.timestamp = row.timestamp /\ o.id <= row.id

\* sqlite GetLatestReading(ctx): the possible results
SqlGetLatestReading(st, io) ==
    IF io = "fail"
    THEN {[err |-> "StorageError", reading |-> NoReading]}
    ELSE IF st.rows = {}
    THEN {[err |-> "ErrReadingNotFound", reading |-> NoReading]}
    ELSE {[err |-> "nil",
           reading |-> SqlScanRow(SqlOrderByTimestampDescLimit1(st.rows))]}

\* mutant of SqlIsOld: DELETE ... WHERE timestamp <= ?
SqlIsOldInclusive(col, cutoffText) == col <= ParseTime(cutoffText)

\* DELETE ... WHERE timestamp < ?, the argument being cutoff.Format(...)
SqlIsOld(col, cutoffText) == col < ParseTime(cutoffText)

\* sqlite DeleteOldReadings(ctx, olderThan), called when time.Now() = t
SqlDeleteOldReadings(st, olderThan, t, io) ==
    IF io = "fail"
    THEN [st |-> st, err |-> "StorageError"]
    ELSE LET cutoff == t - olderThan
             old    == {row \in st.rows : SqlIsOld(row.timestamp, FormatTime(cutoff))}
         IN  [st  |-> [st EXCEPT !.rows = st.rows \ old],
              err |-> "nil"]

\* -------------------------------------------- domain.ReadingRepository
\* The port, dispatched on the backend behind it.  io is the outcome of the
\* backend's I/O ("ok" or "fail"); the memory backend does none.

IO == {"ok", "fail"}

\* mutant of SaveReading: success is reported and an id given, nothing is kept
SaveReadingForgets(w, st, r, io) ==
    IF w = "sqlite" /\ io = "fail"
    THEN [st |-> st, err |-> "StorageError", reading |-> r]
    ELSE [st |-> st, err |-> "nil", reading |-> [r EXCEPT !.ID = 1]]

SaveReading(w, st, r, io) ==
    IF w = "memory" THEN MemSaveReading(st, r) ELSE SqlSaveReading(st, r, io)

GetReading(w, st, id, io) ==
    IF w = "memory" THEN MemGetReading(st, id) ELSE SqlGetReading(st, id, io)

GetReadingsInRange(w, st, start, end, io) ==
    IF w = "memory" THEN MemGetReadingsInRange(st, start, end)
    ELSE SqlGetReadingsInRange(st, start, end, io)

GetLatestReading(w, st, io) ==
    IF w = "memory" THEN MemGetLatestReading(st) ELSE SqlGetLatestReading(st, io)

DeleteOldReadings(w, st, olderThan, t, io) ==
    IF w = "memory" THEN MemDeleteOldReadings(st, olderThan, t)
    ELSE SqlDeleteOldReadings(st, olderThan, t, io)

\* the records a backend holds, as (ID, Lux, Timestamp) with the timestamp as
\* it is kept
Stored(w, st) ==
    IF w = "memory"
    THEN {[ID |-> id, Lux |-> st.readings[id].Lux,
           Timestamp |-> st.readings[id].Timestamp] : id \in DOMAIN st.readings}
    ELSE {[ID |-> row.id, Lux |-> row.lux, Timestamp |-> row.timestamp] : row \in st.rows}

StoredIDs(w, st) == {r.ID : r \in Stored(w, st)}

\* mutant of MemAfterRead: a read takes the readings out of the map
MemAfterReadDrained(st) == [st EXCEPT !.readings = EmptyMap]

\* the memory repository after GetReading, GetReadingsInRange or
\* GetLatestReading: they read r.readings under the read lock and write
\* neither the map nor nextID
MemAfterRead(st) == st

\* the SQLite repository after GetReading, GetReadingsInRange or
\* GetLatestReading: a SELECT, whether it succeeds or fails
SqlAfterRead(st) == st

AfterRead(w, st) == IF w = "memory" THEN MemAfterRead(st) ELSE SqlAfterRead(st)

\* ---------------------------------------------------- ports.LightSensor
\* what ReadLux can hand back
SensorOutcomes ==
    {[err |-> "nil", lux |-> l] : l \in LuxInputs}
        \cup {[err |-> "ErrSensorUnavailable", lux |-> 0]}

\* ------------------------------------------------ grpc.LightServiceHandler
\* convertReadingToProto
convertReadingToProto(r) ==
    [Id |-> r.ID, Lux |-> r.Lux, Timestamp |-> Unix(r.Timestamp),
     Category |-> LightCategory(r)]

\* what a call reports: the status code and reading it returns, and what it
\* did on the way (outcome of GetLatestReading, sensor reads, save)
Response(op, code, reading, latest, sensorReads, saved) ==
    [op |-> op, code |-> code, reading |-> reading, latest |-> latest,
     sensorReads |-> sensorReads, saved |-> saved]

NoResponse == Response("none", "OK", NoReading, "none", 0, FALSE)

\* mutant of GetCurrentLightMiss: the reading is built from the zero value,
\* the sensor is not read
GetCurrentLightMissNoRead(w, st, t, sensor, ioSave) ==
    LET sv == SaveReading(w, st, NewLightReading(0, t).reading, ioSave)
    IN  [st |-> sv.st,
         resp |-> Response("GetCurrentLight", "OK", convertReadingToProto(sv.reading),
                           "notfound", 0, sv.err = "nil")]

\* mutant of GetCurrentLightMiss: a failed save fails the request
GetCurrentLightMissMustSave(w, st, t, sensor, ioSave) ==
    IF sensor.err # "nil" \/ NewLightReading(sensor.lux, t).err # "nil"
    THEN [st |-> st,
          resp |-> Response("GetCurrentLight", "Internal", NoReading, "notfound", 1, FALSE)]
    ELSE LET sv == SaveReading(w, st, NewLightReading(sensor.lux, t).reading, ioSave)
         IN  [st |-> sv.st,
              resp |-> IF sv.err = "nil"
                       THEN Response("GetCurrentLight", "OK",
                                     convertReadingToProto(sv.reading), "notfound", 1, TRUE)
                       ELSE Response("GetCurrentLight", "Internal", NoReading,
                                     "notfound", 1, FALSE)]

\* mutant of GetCurrentLightMiss: a sensor that cannot be read counts as dark
GetCurrentLightMissDark(w, st, t, sensor, ioSave) ==
    LET n  == NewLightReading(IF sensor.err # "nil" THEN 0 ELSE sensor.lux, t)
        sv == SaveReading(w, st, n.reading, ioSave)
    IN  IF n.err # "nil"
        THEN [st |-> st,
              resp |-> Response("GetCurrentLight", "Internal", NoReading,
                                "notfound", 1, FALSE)]
        ELSE [st |-> sv.st,
              resp |-> Response("GetCurrentLight", "OK", convertReadingToProto(sv.reading),
                                "notfound", 1, sv.err = "nil")]

\* the miss path of GetCurrentLight: read the sensor, build a reading, try to
\* save it
GetCurrentLightMiss(w, st, t, sensor, ioSave) ==
    IF sensor.err # "nil"
    THEN [st |-> st,
          resp |-> Response("GetCurrentLight", "Internal", NoReading, "notfound", 1, FALSE)]
    ELSE LET n == NewLightReading(sensor.lux, t)
         IN  IF n.err # "nil"
             THEN [st |-> st,
                   resp |-> Response("GetCurrentLight", "Internal", NoReading,
                                     "notfound", 1, FALSE)]
             ELSE LET sv == SaveReading(w, st, n.reading, ioSave)
                  IN  [st |-> sv.st,
                       resp |-> Response("GetCurrentLight", "OK",
                                         convertReadingToProto(sv.reading),
                                         "notfound", 1, sv.err = "nil")]

\* mutant of GetCurrentLight: the sensor is read whatever GetLatestReading says
GetCurrentLightAlwaysSensor(w, st, t, sensor, ioLatest, ioSave) ==
    {GetCurrentLightMiss(w, st, t, sensor, ioSave)}

\* mutant of GetCurrentLight: every error of GetLatestReading is taken for
\* a miss
GetCurrentLightErrorIsMiss(w, st, t, sensor, ioLatest, ioSave) ==
    {IF l.err # "nil"
     THEN GetCurrentLightMiss(w, st, t, sensor, ioSave)
     ELSE [st |-> st,
           resp |-> Response("GetCurrentLight", "OK", convertReadingToProto(l.reading),
                             "found", 0, FALSE)] :
        l \in GetLatestReading(w, st, ioLatest)}

\* GetCurrentLight(ctx, req), called when time.Now() = t: the possible outcomes
GetCurrentLight(w, st, t, sensor, ioLatest, ioSave) ==
    {IF l.err = "ErrReadingNotFound"
     THEN GetCurrentLightMiss(w, st, t, sensor, ioSave)
     ELSE IF l.err # "nil"
     THEN [st |-> st,
           resp |-> Response("GetCurrentLight", "Internal", NoReading, "error", 0, FALSE)]
     ELSE [st |-> st,
           resp |-> Response("GetCurrentLight", "OK", convertReadingToProto(l.reading),
                             "found", 0, FALSE)] :
        l \in GetLatestReading(w, st, ioLatest)}

\* mutant of RecordReading: a rejected value is reported as an internal error
RecordReadingInternal(w, st, t, lux, ioSave) ==
    LET n  == NewLightReading(lux, t)
        sv == SaveReading(w, st, n.reading, ioSave)
    IN  IF n.err # "nil" \/ sv.err # "nil"
        THEN [st |-> st,
              resp |-> Response("RecordReading", "Internal", NoReading, "none", 0, FALSE)]
        ELSE [st |-> sv.st,
              resp |-> Response("RecordReading", "OK", convertReadingToProto(sv.reading),
                                "none", 0, TRUE)]

\* RecordReading(ctx, req), called when time.Now() = t
RecordReading(w, st, t, lux, ioSave) ==
    LET n == NewLightReading(lux, t)
    IN  IF n.err # "nil"
        THEN [st |-> st,
              resp |-> Response("RecordReading", "InvalidArgument", NoReading,
                                "none", 0, FALSE)]
        ELSE LET sv == SaveReading(w, st, n.reading, ioSave)
             IN  IF sv.err # "nil"
                 THEN [st |-> sv.st,
                       resp |-> Response("RecordReading", "Internal", NoReading,
                                         "none", 0, FALSE)]
                 ELSE [st |-> sv.st,
                       resp |-> Response("RecordReading", "OK",
                                         convertReadingToProto(sv.reading),
                                         "none", 0, TRUE)]

\* time.Unix(sec, 0)
UnixTime(sec) == sec * TicksPerSec

RECURSIVE GCD(_, _)
GCD(a, b) == IF b = 0 THEN a ELSE GCD(b, a % b)

\* sum / float64(n): the quotient as a fraction in lowest terms, NaN when the
\* sum is
FloatDiv(a, n) ==
    IF a = NaN THEN [num |-> NaN, den |-> 1]
    ELSE LET g == GCD(IF a < 0 THEN 0 - a ELSE a, n)
         IN  [num |-> a \div g, den |-> n \div g]

\* the float64 zero value as a quotient
FloatZero == [num |-> 0, den |-> 1]

\* the loop of calculateStatistics from readings[i] on; acc is (sum, min, max)
RECURSIVE StatisticsLoop(_, _, _)
StatisticsLoop(readings, i, acc) ==
    IF i > Len(readings) THEN acc
    ELSE LET lux == readings[i].Lux
         IN  StatisticsLoop(readings, i + 1,
                 [sum |-> FloatAdd(acc.sum, lux),
                  min |-> IF FloatLt(lux, acc.min) THEN lux ELSE acc.min,
                  max |-> IF FloatGt(lux, acc.max) THEN lux ELSE acc.max])

\* calculateStatistics(readings)
calculateStatistics(readings) ==
    IF Len(readings) = 0
    THEN [average |-> FloatZero, min |-> 0, max |-> 0]
    ELSE LET acc == StatisticsLoop(readings, 1,
                        [sum |-> 0, min |-> readings[1].Lux, max |-> readings[1].Lux])
         IN  [average |-> FloatDiv(acc.sum, Len(readings)),
              min     |-> acc.min,
              max     |-> acc.max]

\* what GetHistory reports: the status code, the readings and the statistics
HistoryResponse(code, readings, stats) ==
    [op |-> "GetHistory", code |-> code, reading |-> NoReading, latest |-> "none",
     sensorReads |-> 0, saved |-> FALSE,
     readings |-> readings, AverageLux |-> stats.average,
     MinLux |-> stats.min, MaxLux |-> stats.max]

\* GetHistory(ctx, req) with req.StartTime = startSec and req.EndTime = endSec:
\* the possible outcomes
GetHistory(w, st, startSec, endSec, io) ==
    {IF res.err # "nil"
     THEN [st   |-> AfterRead(w, st),
           resp |-> HistoryResponse("Internal", <<>>, calculateStatistics(<<>>))]
     ELSE [st   |-> AfterRead(w, st),
           resp |-> HistoryResponse("OK",
                        [i \in DOMAIN res.readings |-> convertReadingToProto(res.readings[i])],
                        calculateStatistics(res.readings))] :
        res \in GetReadingsInRange(w, st, UnixTime(startSec), UnixTime(endSec), io)}

\* ------------------------------------------------------- ports.Recorder
\* mutant of recordOnce: a save that fails is tried once more
recordOnceRetriesSave(w, st, t, sensor, ioSave) ==
    IF sensor.err # "nil"
    THEN [st |-> st, resp |-> Response("recordOnce", "OK", NoReading, "none", 1, FALSE)]
    ELSE LET n == NewLightReading(sensor.lux, t)
         IN  IF n.err # "nil"
             THEN [st |-> st,
                   resp |-> Response("recordOnce", "OK", NoReading, "none", 1, FALSE)]
             ELSE LET first == SaveReading(w, st, n.reading, ioSave)
                      sv    == IF first.err = "nil" THEN first
                               ELSE SaveReading(w, first.st, n.reading, "ok")
                  IN  [st |-> sv.st,
                       resp |-> Response("recordOnce", "OK",
                                         IF sv.err = "nil"
                                         THEN convertReadingToProto(sv.reading)
                                         ELSE NoReading,
                                         "none", 1, sv.err = "nil")]

\* recordOnce(ctx), called when time.Now() = t: read the sensor, build a
\* reading, save it; every failure is logged and the tick is given up
recordOnce(w, st, t, sensor, ioSave) ==
    IF sensor.err # "nil"
    THEN [st |-> st, resp |-> Response("recordOnce", "OK", NoReading, "none", 1, FALSE)]
    ELSE LET n == NewLightReading(sensor.lux, t)
         IN  IF n.err # "nil"
             THEN [st |-> st,
                   resp |-> Response("recordOnce", "OK", NoReading, "none", 1, FALSE)]
             ELSE LET sv == SaveReading(w, st, n.reading, ioSave)
                  IN  [st |-> sv.st,
                       resp |-> Response("recordOnce", "OK",
                                         IF sv.err = "nil"
                                         THEN convertReadingToProto(sv.reading)
                                         ELSE NoReading,
                                         "none", 1, sv.err = "nil")]

\* ----------------------------------------------------------------- state
RepoTypes == {"memory", "sqlite", "both"}

\* backend w is in use
Active(w) == repoType \in {w, "both"}

\* the goroutines whose calls are followed statement by statement: the
\* Recorder's and two that the gRPC server runs handlers in
Procs == {"recorder", "h1", "h2"}

\* a goroutine between calls: op is the call it last ran, pc where it stands,
\* latest what GetLatestReading told it, read whether it has called ReadLux,
\* lux what ReadLux handed back, result the reading it returned, cutoff the
\* bound of its sweep
IdleCall ==
    [op |-> "none", pc |-> "idle", latest |-> "none", read |-> FALSE, lux |-> 0,
     result |-> NoReading, cutoff |-> 0]

\* the process as main leaves it before the server and the Recorder start:
\* the database is open, the zero RWMutex is unlocked (no writer, no
\* readers), no call is in flight
NewProcess ==
    [closed |-> FALSE,
     mu     |-> [w |-> FALSE, r |-> 0],
     g      |-> [p \in Procs |-> IdleCall]]

\* the outcomes the database I/O of a call can have; the side-by-side run is
\* a run on a healthy database, and a closed database fails every call
IOOutcomes ==
    IF proc.closed THEN {"fail"}
    ELSE IF repoType = "both" THEN {"ok"} ELSE IO

\* the calls of Start that are followed
Starts == 1..MaxStarts

\* ports.NewRecorder(sensor, repo, interval): no call of Start has begun, the
\* context of main is not cancelled, nothing is logged
NewRecorder ==
    [pc        |-> [i \in Starts |-> "idle"],
     cancelled |-> FALSE,
     log       |-> [w \in Backends |-> "none"]]

Init ==
    /\ now = 0
    /\ repoType \in RepoTypes
    /\ repo = [w \in Backends |->
                 IF w = "memory" THEN MemNewReadingRepository ELSE SqlNewReadingRepository]
    /\ held = [w \in Backends |-> NoReading]
    /\ resp = [w \in Backends |-> NoResponse]
    /\ aligned = TRUE
    /\ rec = NewRecorder
    /\ proc = NewProcess

\* ids are left to hand out
CanSave ==
    /\ Active("memory") => repo["memory"].nextID <= MaxID
    /\ Active("sqlite") => repo["sqlite"].seq < MaxID

\* a handler call runs when ids are left to hand out or it stores nothing
CanRun(om, os) ==
    CanSave \/ (om.st = repo["memory"] /\ os.st = repo["sqlite"])

\* the history flag after a call that wrote at time t (when wrote holds)
AlignedAfter(wrote, t) ==
    IF repoType = "both" THEN aligned /\ (wrote => Aligned(t)) ELSE aligned

\* the clock advances
Tick ==
    /\ now < MaxTime
    /\ now' = now + 1
    /\ UNCHANGED <<repo, held, resp, repoType, aligned, rec, proc>>

\* the handler outcomes on backend w, none when w is not in use
HandlerOutcomes(w, outs) ==
    IF Active(w) THEN outs ELSE {[st |-> repo[w], resp |-> resp[w]]}

\* GetCurrentLight runs with the given sensor and database behaviour
GetCurrentLightStep(sensor, ioLatest, ioSave) ==
      \E om \in HandlerOutcomes("memory",
                    GetCurrentLight("memory", repo["memory"], now, sensor, ioLatest, ioSave)),
         os \in HandlerOutcomes("sqlite",
                    GetCurrentLight("sqlite", repo["sqlite"], now, sensor, ioLatest, ioSave)) :
        /\ CanRun(om, os)
        /\ repo' = [w \in Backends |-> IF w = "memory" THEN om.st ELSE os.st]
        /\ resp' = [w \in Backends |-> IF w = "memory" THEN om.resp ELSE os.resp]
        /\ aligned' = AlignedAfter(om.resp.saved \/ os.resp.saved, now)
        /\ UNCHANGED <<now, held, repoType, rec, proc>>

\* a client calls GetCurrentLight
GetCurrentLightCall ==
    \E sensor \in SensorOutcomes, ioLatest \in IOOutcomes, ioSave \in IOOutcomes :
        GetCurrentLightStep(sensor, ioLatest, ioSave)

\* RecordReading runs with the given request and database behaviour
RecordReadingStep(lux, ioSave) ==
      \E om \in HandlerOutcomes("memory",
                    {RecordReading("memory", repo["memory"], now, lux, ioSave)}),
         os \in HandlerOutcomes("sqlite",
                    {RecordReading("sqlite", repo["sqlite"], now, lux, ioSave)}) :
        /\ CanRun(om, os)
        /\ repo' = [w \in Backends |-> IF w = "memory" THEN om.st ELSE os.st]
        /\ resp' = [w \in Backends |-> IF w = "memory" THEN om.resp ELSE os.resp]
        /\ aligned' = AlignedAfter(om.resp.saved \/ os.resp.saved, now)
        /\ UNCHANGED <<now, held, repoType, rec, proc>>

\* a client calls RecordReading
RecordReadingCall ==
    \E lux \in LuxInputs, ioSave \in IOOutcomes : RecordReadingStep(lux, ioSave)

\* recordOnce runs with the given sensor and database behaviour
RecordOnceStep(sensor, ioSave) ==
      \E om \in HandlerOutcomes("memory",
                    {recordOnce("memory", repo["memory"], now, sensor, ioSave)}),
         os \in HandlerOutcomes("sqlite",
                    {recordOnce("sqlite", repo["sqlite"], now, sensor, ioSave)}) :
        /\ CanRun(om, os)
        /\ repo' = [w \in Backends |-> IF w = "memory" THEN om.st ELSE os.st]
        /\ resp' = [w \in Backends |-> IF w = "memory" THEN om.resp ELSE os.resp]
        /\ aligned' = AlignedAfter(om.resp.saved \/ os.resp.saved, now)
        /\ UNCHANGED <<now, held, repoType>>

\* the Recorder's ticker fires (or the Recorder starts)
RecordOnceCall ==
    \E sensor \in SensorOutcomes, ioSave \in IOOutcomes :
        RecordOnceStep(sensor, ioSave) /\ UNCHANGED <<rec, proc>>

\* the epoch seconds a GetHistory request can carry
HistorySeconds == (0 - 1)..(MaxTime \div TicksPerSec + 1)

\* GetHistory runs with the given request and database behaviour
GetHistoryStep(startSec, endSec, io) ==
      \E om \in HandlerOutcomes("memory",
                    GetHistory("memory", repo["memory"], startSec, endSec, io)),
         os \in HandlerOutcomes("sqlite",
                    GetHistory("sqlite", repo["sqlite"], startSec, endSec, io)) :
        /\ repo' = [w \in Backends |-> IF w = "memory" THEN om.st ELSE os.st]
        /\ resp' = [w \in Backends |-> IF w = "memory" THEN om.resp ELSE os.resp]
        /\ UNCHANGED <<now, held, repoType, aligned, rec, proc>>

\* a client calls GetHistory
GetHistoryCall ==
    \E startSec \in HistorySeconds, endSec \in HistorySeconds, io \in IOOutcomes :
        GetHistoryStep(startSec, endSec, io)

\* what a direct SaveReading call of a caller who keeps the reading leaves
SaveReadingDone(out) ==
    /\ repo' = [w \in Backends |-> IF Active(w) THEN out[w].st ELSE repo[w]]
    /\ held' = [w \in Backends |-> IF Active(w) THEN out[w].reading ELSE held[w]]
    /\ resp' = [w \in Backends |->
                  IF Active(w)
                  THEN Response("SaveReading",
                                IF out[w].err = "nil" THEN "OK" ELSE "Internal",
                                IF out[w].err = "nil"
                                THEN convertReadingToProto(out[w].reading) ELSE NoReading,
                                "none", 0, out[w].err = "nil")
                  ELSE resp[w]]
    /\ UNCHANGED <<now, repoType, rec, proc>>

\* a caller builds a reading, sets its timestamp, saves it and keeps it (as
\* the repository tests do to seed a store)
SaveNewReadingCall ==
    \E lux \in SeedLux, ts \in Times, ioSave \in IOOutcomes :
      LET n == NewLightReading(lux, now)
          r == [n.reading EXCEPT !.Timestamp = ts]
      IN  /\ CanSave
          /\ n.err = "nil"
          /\ SaveReadingDone([w \in Backends |-> SaveReading(w, repo[w], r, ioSave)])
          /\ aligned' = AlignedAfter(TRUE, ts)

\* SaveReading runs on the reading the caller kept
SaveHeldReadingStep(ioSave) ==
      /\ CanSave
      /\ \A w \in Backends : Active(w) => held[w] # NoReading
      /\ SaveReadingDone([w \in Backends |->
                            IF Active(w) THEN SaveReading(w, repo[w], held[w], ioSave)
                            ELSE [st |-> repo[w], err |-> "nil", reading |-> held[w]]])
      /\ aligned' = aligned

\* the caller hands the reading it kept to SaveReading once more
SaveHeldReadingCall ==
    \E ioSave \in IOOutcomes : SaveHeldReadingStep(ioSave)

\* DeleteOldReadings(olderThan) runs
DeleteOldReadingsStep(olderThan, io) ==
      LET out == [w \in Backends |-> DeleteOldReadings(w, repo[w], olderThan, now, io)]
      IN  /\ repo' = [w \in Backends |-> IF Active(w) THEN out[w].st ELSE repo[w]]
          /\ resp' = [w \in Backends |->
                        IF Active(w)
                        THEN Response("DeleteOldReadings",
                                      IF out[w].err = "nil" THEN "OK" ELSE "Internal",
                                      NoReading, "none", 0, FALSE)
                        ELSE resp[w]]
          /\ aligned' = AlignedAfter(TRUE, now - olderThan)
          /\ UNCHANGED <<now, held, repoType>>

\* the eviction sweep
DeleteOldReadingsCall ==
    \E olderThan \in Ages, io \in IOOutcomes :
        DeleteOldReadingsStep(olderThan, io) /\ UNCHANGED <<rec, proc>>

Next ==
    \/ Tick
    \/ GetCurrentLightCall
    \/ RecordReadingCall
    \/ RecordOnceCall
    \/ SaveHeldReadingCall
    \/ SaveNewReadingCall
    \/ DeleteOldReadingsCall

Spec == Init /\ [][Next]_vars

\* the service with its history queries
HistoryNext ==
    \/ Next
    \/ GetHistoryCall

HistorySpec == Init /\ [][HistoryNext]_vars

\* ------------------------------------------------- the domain on its own
\* The domain package called directly, as its unit tests call it: a caller
\* builds a reading from a value and asks for the category of the reading it
\* holds.  resp records the call, its argument and what came back.
DomainLux == {-10, -1, 0, 1, 199, 200, 201, 2499, 2500, 2501, NaN}

DomainResponse(op, arg, err, value) ==
    [op |-> op, arg |-> arg, err |-> err, value |-> value]

\* reading, err := domain.NewLightReading(lux)
NewLightReadingCall ==
    \E lux \in DomainLux :
        LET n == NewLightReading(lux, now)
        IN  /\ held' = [w \in Backends |-> n.reading]
            /\ resp' = [w \in Backends |->
                          DomainResponse("NewLightReading", lux, n.err, n.reading)]
            /\ UNCHANGED <<now, repo, repoType, aligned, rec, proc>>

\* reading.LightCategory() on the reading the caller holds
LightCategoryCall ==
    /\ \A w \in Backends : held[w] # NoReading
    /\ resp' = [w \in Backends |->
                  DomainResponse("LightCategory", held[w].Lux, "nil",
                                 [Category |-> LightCategory(held[w]),
                                  IsLowLight |-> IsLowLight(held[w]),
                                  IsMediumLight |-> IsMediumLight(held[w]),
                                  IsHighLight |-> IsHighLight(held[w])])]
    /\ UNCHANGED <<now, repo, held, repoType, aligned, rec, proc>>

DomainNext ==
    \/ Tick
    \/ NewLightReadingCall
    \/ LightCategoryCall

DomainSpec == Init /\ [][DomainNext]_vars

\* ------------------------------------------- callers that write readings
\* A *domain.LightReading is a pointer.  The memory backend keeps the pointer
\* it is handed (r.readings[reading.ID] = reading) and hands out the pointers
\* it keeps, so the record under an id is the very object the caller saved or
\* was given; SQLite copies the fields into a row and builds a new object for
\* every result.  The calls above never write to a reading they saved or were
\* given; here a caller does: it sets Lux and Timestamp (the id is left alone).

\* what a caller writes into a reading
CallerLux == {500}

\* the reading r after the caller's writes
CallerWrite(r, lux, ts) == [r EXCEPT !.Lux = lux, !.Timestamp = ts]

\* the memory repository after the object kept under id was written to
MemWrittenThrough(st, id, lux, ts) ==
    IF id \in DOMAIN st.readings
    THEN [st EXCEPT !.readings = MapPut(st.readings, id,
                                        CallerWrite(st.readings[id], lux, ts))]
    ELSE st

\* the repository of backend w after a caller wrote to the object that
\* carries id
WrittenThrough(w, st, id, lux, ts) ==
    IF w = "memory" THEN MemWrittenThrough(st, id, lux, ts) ELSE st

CallerWriteResponse ==
    [w \in Backends |->
        IF Active(w) THEN Response("CallerWrite", "OK", NoReading, "none", 0, FALSE)
        ELSE resp[w]]

\* the caller writes to the reading it saved and kept
WriteHeldReadingCall ==
    \E lux \in CallerLux, ts \in Times :
        /\ \A w \in Backends : Active(w) => (held[w] # NoReading /\ held[w].ID # 0)
        /\ \E w \in Backends : Active(w) /\ CallerWrite(held[w], lux, ts) # held[w]
        /\ held' = [w \in Backends |->
                      IF Active(w) THEN CallerWrite(held[w], lux, ts) ELSE held[w]]
        /\ repo' = [w \in Backends |->
                      IF Active(w) THEN WrittenThrough(w, repo[w], held[w].ID, lux, ts)
                      ELSE repo[w]]
        /\ resp' = CallerWriteResponse
        /\ aligned' = AlignedAfter(TRUE, ts)
        /\ UNCHANGED <<now, repoType, rec, proc>>

\* the caller writes to the reading that GetReading(id) handed out
WriteReturnedReadingCall ==
    \E id \in 1..MaxID, lux \in CallerLux, ts \in Times :
        /\ \A w \in Backends : Active(w) => GetReading(w, repo[w], id, "ok").err = "nil"
        /\ \E w \in Backends :
              Active(w) /\ CallerWrite(GetReading(w, repo[w], id, "ok").reading, lux, ts)
                              # GetReading(w, repo[w], id, "ok").reading
        /\ repo' = [w \in Backends |->
                      IF Active(w) THEN WrittenThrough(w, repo[w], id, lux, ts)
                      ELSE repo[w]]
        /\ held' = [w \in Backends |->
                      IF w = "memory" /\ Active(w) /\ held[w] # NoReading /\ held[w].ID = id
                      THEN CallerWrite(held[w], lux, ts) ELSE held[w]]
        /\ resp' = CallerWriteResponse
        /\ aligned' = AlignedAfter(TRUE, ts)
        /\ UNCHANGED <<now, repoType, rec, proc>>

\* the repository in the hands of a caller that saves readings, keeps them,
\* asks for them and writes to them
AliasNext ==
    \/ Tick
    \/ SaveNewReadingCall
    \/ SaveHeldReadingCall
    \/ DeleteOldReadingsCall
    \/ WriteHeldReadingCall
    \/ WriteReturnedReadingCall

AliasSpec == Init /\ [][AliasNext]_vars

\* ------------------------------------------------ close and open again
\* The database file outlives the process.  Every statement of the adapter
\* is committed when it returns, so the file that Close leaves holds the
\* table and the AUTOINCREMENT mark as they are; NewReadingRepository on that
\* path opens the file and runs CREATE TABLE IF NOT EXISTS and CREATE INDEX
\* IF NOT EXISTS.  The memory backend starts empty in every process.

\* no file at dbPath
NoFile == [none |-> TRUE]

\* r.db.Close(): the file left at dbPath
SqlClose(st) == [rows |-> st.rows, seq |-> st.seq]

\* mutant of SqlCreateTableIfNotExists: the table is made anew
SqlCreateTable(file) == SqlNewReadingRepository

\* CREATE TABLE IF NOT EXISTS light_readings (...) on the file at dbPath
SqlCreateTableIfNotExists(file) ==
    IF file = NoFile THEN SqlNewReadingRepository
    ELSE [rows |-> file.rows, seq |-> file.seq]

\* sqlite.NewReadingRepository(dbPath) on the file at dbPath
SqlOpenReadingRepository(file) == SqlCreateTableIfNotExists(file)

\* the server stops (defer r.Close()) and is started again with the same
\* configuration
RestartCall ==
    /\ repo' = [w \in Backends |->
                  IF ~Active(w) THEN repo[w]
                  ELSE IF w = "memory" THEN MemNewReadingRepository
                  ELSE SqlOpenReadingRepository(SqlClose(repo[w]))]
    /\ held' = [w \in Backends |-> NoReading]
    /\ resp' = [w \in Backends |->
                  IF Active(w) THEN Response("Restart", "OK", NoReading, "none", 0, FALSE)
                  ELSE resp[w]]
    /\ aligned' = (aligned /\ repoType # "both")
    /\ UNCHANGED <<now, repoType, rec, proc>>

\* the service, stopped and started again at any time
RestartNext ==
    \/ Next
    \/ RestartCall

RestartSpec == Init /\ [][RestartNext]_vars

\* ------------------------------------------- the Recorder's goroutine
\* Recorder.Start as main runs it (go recorder.Start(ctx)): rec.pc[i] is where
\* call i of Start stands: "idle" (not called), "initial" (the tickers exist,
\* the recordOnce before the loop is next), "select" (waiting in the select),
\* "sample" and "cleanup" (a case of the select was taken, its body is next),
\* "stopped" (Start returned).  rec.cancelled says that ctx.Done() is closed
\* and rec.log[w] is the last line the Recorder logged.  A ticker's channel
\* can hold a tick whenever the loop comes to the select, so a ticker case
\* can be taken there at any time.  The struct has no state field and Start
\* no guard, so Start can be called on any Recorder.

\* the 30*24*time.Hour that the cleanup case passes, on the model's clock
RetentionWindow == 1

\* the line recordOnce logs last
recordOnceLog(w, st, t, sensor, ioSave) ==
    IF sensor.err # "nil" THEN "failed to read sensor"
    ELSE LET n == NewLightReading(sensor.lux, t)
         IN  IF n.err # "nil" THEN "failed to create reading"
             ELSE IF SaveReading(w, st, n.reading, ioSave).err # "nil"
                  THEN "failed to save reading"
                  ELSE "recorded light reading"

\* the line the cleanup case logs
cleanupLog(w, st, t, io) ==
    IF DeleteOldReadings(w, st, RetentionWindow, t, io).err # "nil"
    THEN "failed to delete old readings"
    ELSE "deleted readings older than 30 days"

\* the lines logged, one for each backend in use
LogOf(lines) == [w \in Backends |-> IF Active(w) THEN lines[w] ELSE "none"]

\* mutant of Start: the loop is entered without the recordOnce before it
StartThenWait(r, i) ==
    [r EXCEPT !.pc[i] = "select",
              !.log = LogOf([w \in Backends |-> "starting background recorder"])]

\* Start up to the recordOnce before the loop: both tickers are created
Start(r, i) ==
    [r EXCEPT !.pc[i] = "initial",
              !.log = LogOf([w \in Backends |-> "starting background recorder"])]

\* mutant of AfterRecordOnce: the loop returns when the sensor read failed
AfterRecordOnceGiveUp(r, i, log) ==
    [r EXCEPT !.pc[i] = IF \E w \in Backends : log[w] = "failed to read sensor"
                        THEN "stopped" ELSE "select",
              !.log = log]

\* recordOnce returned nothing: the loop goes (back) into the select
AfterRecordOnce(r, i, log) ==
    [r EXCEPT !.pc[i] = "select", !.log = log]

\* mutant of AfterCleanup: the loop returns when the sweep failed
AfterCleanupGiveUp(r, i, log) ==
    [r EXCEPT !.pc[i] = IF \E w \in Backends : log[w] = "failed to delete old readings"
                        THEN "stopped" ELSE "select",
              !.log = log]

\* the cleanup case only logs: the loop goes back into the select
AfterCleanup(r, i, log) ==
    [r EXCEPT !.pc[i] = "select", !.log = log]

\* mutant of ReturnOnDone: the loop stays in the select
IgnoreDone(r, i) ==
    [r EXCEPT !.log = [w \in Backends |-> "none"]]

\* case <-ctx.Done(): log and return
ReturnOnDone(r, i) ==
    [r EXCEPT !.pc[i] = "stopped",
              !.log = LogOf([w \in Backends |-> "stopping background recorder"])]

\* go recorder.Start(ctx): call i begins (the calls are numbered in the order
\* they begin)
StartCall(i) ==
    /\ rec.pc[i] = "idle"
    /\ i > 1 => rec.pc[i - 1] # "idle"
    /\ rec' = Start(rec, i)
    /\ UNCHANGED <<now, repo, held, resp, repoType, aligned, proc>>

\* r.recordOnce(ctx) of call i runs with the given sensor and database
\* behaviour
RecordOnceRuns(i, sensor, ioSave) ==
    /\ RecordOnceStep(sensor, ioSave)
    /\ rec' = AfterRecordOnce(rec, i,
                 LogOf([w \in Backends |-> recordOnceLog(w, repo[w], now, sensor, ioSave)]))
    /\ UNCHANGED proc

\* what the sensor of the Recorder does: a reading the domain accepts, one it
\* rejects, or a failure
RecorderSensor ==
    {o \in SensorOutcomes : o.err # "nil" \/ o.lux \in SeedLux \cup {0 - 10}}

\* the recordOnce before the loop
InitialSample(i) ==
    /\ rec.pc[i] = "initial"
    /\ \E sensor \in RecorderSensor, ioSave \in IOOutcomes :
          RecordOnceRuns(i, sensor, ioSave)

\* case <-ticker.C is taken
SelectTicker(i) ==
    /\ rec.pc[i] = "select"
    /\ rec' = [rec EXCEPT !.pc[i] = "sample"]
    /\ UNCHANGED <<now, repo, held, resp, repoType, aligned, proc>>

\* mutant of SampleStep: a ticker case is also served after Start returned
SampleStepAfterReturn(i) ==
    /\ rec.pc[i] \in {"sample", "stopped"}
    /\ \E sensor \in RecorderSensor, ioSave \in IOOutcomes :
          RecordOnceRuns(i, sensor, ioSave)

\* the recordOnce of the ticker case
SampleStep(i) ==
    /\ rec.pc[i] = "sample"
    /\ \E sensor \in RecorderSensor, ioSave \in IOOutcomes :
          RecordOnceRuns(i, sensor, ioSave)

\* case <-cleanupTicker.C is taken
SelectCleanup(i) ==
    /\ rec.pc[i] = "select"
    /\ rec' = [rec EXCEPT !.pc[i] = "cleanup"]
    /\ UNCHANGED <<now, repo, held, resp, repoType, aligned, proc>>

\* r.repo.DeleteOldReadings(ctx, 30*24*time.Hour) of the cleanup case
CleanupStep(i) ==
    /\ rec.pc[i] = "cleanup"
    /\ \E io \in IOOutcomes :
          /\ DeleteOldReadingsStep(RetentionWindow, io)
          /\ rec' = AfterCleanup(rec, i,
                        LogOf([w \in Backends |-> cleanupLog(w, repo[w], now, io)]))
          /\ UNCHANGED proc

\* main receives a signal and calls cancel()
CancelCall ==
    /\ rec.pc[1] # "idle"
    /\ ~rec.cancelled
    /\ rec' = [rec EXCEPT !.cancelled = TRUE]
    /\ UNCHANGED <<now, repo, held, resp, repoType, aligned, proc>>

\* mutant of ObserveDone: Start returns wherever it stands once ctx is done
ObserveDoneMidCall(i) ==
    /\ rec.pc[i] \in {"initial", "select", "sample", "cleanup"}
    /\ rec.cancelled
    /\ rec' = ReturnOnDone(rec, i)
    /\ UNCHANGED <<now, repo, held, resp, repoType, aligned, proc>>

\* case <-ctx.Done() is taken
ObserveDone(i) ==
    /\ rec.pc[i] = "select"
    /\ rec.cancelled
    /\ rec' = ReturnOnDone(rec, i)
    /\ UNCHANGED <<now, repo, held, resp, repoType, aligned, proc>>

RecorderNext ==
    \/ Tick
    \/ CancelCall
    \/ \E i \in Starts : StartCall(i)
    \/ \E i \in Starts : InitialSample(i)
    \/ \E i \in Starts : SelectTicker(i)
    \/ \E i \in Starts : SampleStep(i)
    \/ \E i \in Starts : SelectCleanup(i)
    \/ \E i \in Starts : CleanupStep(i)
    \/ \E i \in Starts : ObserveDone(i)

RecorderSpec == Init /\ [][RecorderNext]_vars

\* ---------------------------------------------- the server and shutdown
\* main beside the Recorder: the gRPC server runs handlers until
\* GracefulStop has returned; after cancel() and GracefulStop() main returns
\* and its deferred calls run, r.Close() of the SQLite repository among them
\* (the memory repository has no Close).  main does not wait for the
\* goroutine of Start.

\* the gRPC server runs a handler that writes to the store
ServedCall ==
    /\ ~proc.closed
    /\ \E lux \in SeedLux, ioSave \in IOOutcomes : RecordReadingStep(lux, ioSave)

\* main returns: defer r.Close()
CloseCall ==
    /\ Active("sqlite")
    /\ rec.cancelled
    /\ ~proc.closed
    /\ proc' = [proc EXCEPT !.closed = TRUE]
    /\ UNCHANGED <<now, repo, held, resp, repoType, aligned, rec>>

ServiceNext ==
    \/ RecorderNext
    \/ ServedCall
    \/ CloseCall

ServiceSpec == Init /\ [][ServiceNext]_vars

\* The goroutine of a call of Start is scheduled again and again, and the
\* calls it makes (the sensor, the repository) return: a body that is next
\* runs.  A select with several ready cases takes one of them by a uniform
\* random choice, so a case that is ready every time the loop comes back to
\* the select is taken in the end.
RecorderFairness ==
    \A i \in Starts :
        /\ WF_vars(InitialSample(i))
        /\ WF_vars(SampleStep(i))
        /\ WF_vars(CleanupStep(i))
        /\ SF_vars(ObserveDone(i))

LiveRecorderSpec == Init /\ [][RecorderNext]_vars /\ RecorderFairness

\* ------------------------------------------------ readings with a set id
\* The port takes any *LightReading: a caller may hand SaveReading a reading
\* whose ID it has set itself.  The service with such a caller and without
\* the sweep.
PresetIDs == 1..MaxID

\* a caller builds a reading, sets its ID, saves it and keeps it
SavePresetReadingCall ==
    \E id \in PresetIDs, lux \in CallerLux, ioSave \in IOOutcomes :
      LET n == NewLightReading(lux, now)
          r == [n.reading EXCEPT !.ID = id]
      IN  /\ CanSave
          /\ n.err = "nil"
          /\ SaveReadingDone([w \in Backends |-> SaveReading(w, repo[w], r, ioSave)])
          /\ aligned' = AlignedAfter(TRUE, now)

PresetNext ==
    \/ Tick
    \/ GetCurrentLightCall
    \/ RecordReadingCall
    \/ GetHistoryCall
    \/ SaveHeldReadingCall
    \/ SaveNewReadingCall
    \/ SavePresetReadingCall

PresetSpec == Init /\ [][PresetNext]_vars

\* --------------------------------------------------- the reads of the port
\* A caller of the port reads a store that saves and sweeps have filled, as
\* the repository tests do; resp records the call and what came back.
ReadIDs == 0..(MaxID + 1)

ReadTimes == (0 - 1)..(MaxTime + 1)

ReadResponse(op, err, reading, readings) ==
    [op |-> op, code |-> err, reading |-> reading, readings |-> readings]

\* what a read of the port leaves: out[w] is the outcome on backend w
ReadDone(op, out) ==
    /\ repo' = [w \in Backends |-> IF Active(w) THEN AfterRead(w, repo[w]) ELSE repo[w]]
    /\ resp' = [w \in Backends |->
                  IF Active(w)
                  THEN ReadResponse(op, out[w].err, out[w].reading, out[w].readings)
                  ELSE resp[w]]
    /\ UNCHANGED <<now, held, repoType, aligned, rec, proc>>

\* repo.GetReading(ctx, id)
GetReadingCall ==
    \E id \in ReadIDs, io \in IOOutcomes :
        ReadDone("GetReading",
                 [w \in Backends |->
                    LET g == GetReading(w, repo[w], id, io)
                    IN  [err |-> g.err, reading |-> g.reading, readings |-> <<>>]])

\* repo.GetLatestReading(ctx)
GetLatestReadingCall ==
    \E io \in IOOutcomes :
      \E gm \in GetLatestReading("memory", repo["memory"], io),
         gs \in GetLatestReading("sqlite", repo["sqlite"], io) :
        ReadDone("GetLatestReading",
                 [w \in Backends |->
                    LET g == IF w = "memory" THEN gm ELSE gs
                    IN  [err |-> g.err, reading |-> g.reading, readings |-> <<>>]])

\* repo.GetReadingsInRange(ctx, start, end)
GetReadingsInRangeCall ==
    \E start \in ReadTimes, end \in ReadTimes, io \in IOOutcomes :
      \E gm \in GetReadingsInRange("memory", repo["memory"], start, end, io),
         gs \in GetReadingsInRange("sqlite", repo["sqlite"], start, end, io) :
        ReadDone("GetReadingsInRange",
                 [w \in Backends |->
                    LET g == IF w = "memory" THEN gm ELSE gs
                    IN  [err |-> g.err, reading |-> NoReading, readings |-> g.readings]])

ReadNext ==
    \/ Tick
    \/ SaveNewReadingCall
    \/ DeleteOldReadingsCall
    \/ GetReadingCall
    \/ GetLatestReadingCall
    \/ GetReadingsInRangeCall
    \/ GetHistoryCall

ReadSpec == Init /\ [][ReadNext]_vars

\* -------------------------------------------- calls, statement by statement
\* The memory repository under goroutines that run at the same time: the
\* Recorder's (recordOnce, the sweep of the cleanup case) and two of the gRPC
\* server's (GetCurrentLight, GetHistory).  A call is followed from one
\* statement that other goroutines can see to the next: taking and releasing
\* r.mu, the call of ReadLux and its return, each delete of the sweep.
\* proc.mu is the RWMutex: w says that a writer holds it, r counts the readers
\* that hold it.

\* mutant of CanRLock: a reader does not wait for the writer
CanRLockAlways(mu) == TRUE

\* r.mu.RLock() returns
CanRLock(mu) == ~mu.w

\* r.mu.Lock() returns
CanLock(mu) == ~mu.w /\ mu.r = 0

RLock(mu) == [mu EXCEPT !.r = @ + 1]

RUnlock(mu) == [mu EXCEPT !.r = @ - 1]

Lock(mu) == [mu EXCEPT !.w = TRUE]

Unlock(mu) == [mu EXCEPT !.w = FALSE]

Handlers == {"h1", "h2"}

\* goroutine p goes on as c, the mutex becomes mu
Goes(p, c, mu) == proc' = [proc EXCEPT !.g[p] = c, !.mu = mu]

\* an id is left for the reading that p is about to build
IdLeftFor(p) ==
    repo["memory"].nextID
        + Cardinality({q \in Procs \ {p} : proc.g[q].pc \in {"built", "save"}}) <= MaxID

\* GetCurrentLight: h.repo.GetLatestReading(ctx) takes the read lock
GetLatestRLock(p) ==
    /\ p \in Handlers
    /\ proc.g[p].pc = "idle"
    /\ CanRLock(proc.mu)
    /\ Goes(p, [IdleCall EXCEPT !.op = "GetCurrentLight", !.pc = "latest"], RLock(proc.mu))
    /\ UNCHANGED <<now, repo, held, resp, repoType, aligned, rec>>

\* GetLatestReading returns: the found reading is the answer of
\* GetCurrentLight, on ErrReadingNotFound h.sensor.ReadLux(ctx) is called
GetLatestReturns(p) ==
    /\ proc.g[p].pc = "latest"
    /\ \E l \in MemGetLatestReading(repo["memory"]) :
          IF l.err = "nil"
          THEN Goes(p, [proc.g[p] EXCEPT !.pc = "idle", !.latest = "found",
                                         !.result = l.reading],
                    RUnlock(proc.mu))
          ELSE Goes(p, [proc.g[p] EXCEPT !.pc = "sensor", !.latest = "notfound",
                                         !.read = TRUE],
                    RUnlock(proc.mu))
    /\ UNCHANGED <<now, repo, held, resp, repoType, aligned, rec>>

\* the Recorder's recordOnce begins: r.sensor.ReadLux(ctx) is called
RecordOnceBegins(p) ==
    /\ p = "recorder"
    /\ proc.g[p].pc = "idle"
    /\ Goes(p, [IdleCall EXCEPT !.op = "recordOnce", !.pc = "sensor", !.read = TRUE],
            proc.mu)
    /\ UNCHANGED <<now, repo, held, resp, repoType, aligned, rec>>

\* ReadLux returns: on an error, or when NewLightReading refuses the value,
\* the call ends; else the reading is built
ReadLuxReturns(p) ==
    /\ proc.g[p].pc = "sensor"
    /\ \E sensor \in RecorderSensor :
          LET n == NewLightReading(sensor.lux, now)
          IN  IF sensor.err # "nil" \/ n.err # "nil"
              THEN Goes(p, [proc.g[p] EXCEPT !.pc = "idle"], proc.mu)
              ELSE /\ IdLeftFor(p)
                   /\ Goes(p, [proc.g[p] EXCEPT !.pc = "built", !.lux = sensor.lux,
                                                !.result = n.reading],
                           proc.mu)
    /\ UNCHANGED <<now, repo, held, resp, repoType, aligned, rec>>

\* SaveReading takes the write lock
SaveReadingLock(p) ==
    /\ proc.g[p].pc = "built"
    /\ CanLock(proc.mu)
    /\ Goes(p, [proc.g[p] EXCEPT !.pc = "save"], Lock(proc.mu))
    /\ UNCHANGED <<now, repo, held, resp, repoType, aligned, rec>>

\* SaveReading gives the id, stores the reading and releases the lock; the
\* call ends with the reading
SaveReadingReturns(p) ==
    /\ proc.g[p].pc = "save"
    /\ LET sv == MemSaveReading(repo["memory"], proc.g[p].result)
       IN  /\ repo' = [repo EXCEPT !["memory"] = sv.st]
           /\ Goes(p, [proc.g[p] EXCEPT !.pc = "idle", !.result = sv.reading],
                   Unlock(proc.mu))
    /\ UNCHANGED <<now, held, resp, repoType, aligned, rec>>

\* GetHistory: h.repo.GetReadingsInRange takes the read lock
GetReadingsInRangeRLock(p) ==
    /\ p \in Handlers
    /\ proc.g[p].pc = "idle"
    /\ CanRLock(proc.mu)
    /\ Goes(p, [IdleCall EXCEPT !.op = "GetHistory", !.pc = "range"], RLock(proc.mu))
    /\ UNCHANGED <<now, repo, held, resp, repoType, aligned, rec>>

\* GetReadingsInRange returns
GetReadingsInRangeReturns(p) ==
    /\ proc.g[p].pc = "range"
    /\ Goes(p, [proc.g[p] EXCEPT !.pc = "idle"], RUnlock(proc.mu))
    /\ UNCHANGED <<now, repo, held, resp, repoType, aligned, rec>>

\* the cleanup case: DeleteOldReadings takes the write lock and computes the
\* cutoff
DeleteOldReadingsLock(p) ==
    /\ p = "recorder"
    /\ proc.g[p].pc = "idle"
    /\ CanLock(proc.mu)
    /\ Goes(p, [IdleCall EXCEPT !.op = "cleanup", !.pc = "sweep",
                                !.cutoff = now - RetentionWindow],
            Lock(proc.mu))
    /\ UNCHANGED <<now, repo, held, resp, repoType, aligned, rec>>

\* the readings the sweep of p has yet to delete
StillOld(p) ==
    {id \in DOMAIN repo["memory"].readings :
        MemIsOld(repo["memory"].readings[id].Timestamp, proc.g[p].cutoff)}

\* one turn of the sweep's loop: delete(r.readings, id)
DeleteOldReadingsDeletes(p) ==
    /\ proc.g[p].pc = "sweep"
    /\ \E id \in StillOld(p) :
          repo' = [repo EXCEPT !["memory"].readings = MapDrop(@, {id})]
    /\ UNCHANGED <<now, held, resp, repoType, aligned, rec, proc>>

\* the sweep's loop is over: the lock is released
DeleteOldReadingsReturns(p) ==
    /\ proc.g[p].pc = "sweep"
    /\ StillOld(p) = {}
    /\ Goes(p, [proc.g[p] EXCEPT !.pc = "idle"], Unlock(proc.mu))
    /\ UNCHANGED <<now, repo, held, resp, repoType, aligned, rec>>

ConcurrentNext ==
    \/ Tick
    \/ \E p \in Procs : GetLatestRLock(p)
    \/ \E p \in Procs : GetLatestReturns(p)
    \/ \E p \in Procs : RecordOnceBegins(p)
    \/ \E p \in Procs : ReadLuxReturns(p)
    \/ \E p \in Procs : SaveReadingLock(p)
    \/ \E p \in Procs : SaveReadingReturns(p)
    \/ \E p \in Procs : GetReadingsInRangeRLock(p)
    \/ \E p \in Procs : GetReadingsInRangeReturns(p)
    \/ \E p \in Procs : DeleteOldReadingsLock(p)
    \/ \E p \in Procs : DeleteOldReadingsDeletes(p)
    \/ \E p \in Procs : DeleteOldReadingsReturns(p)

\* the server with the memory repository
ConcurrentInit == Init /\ repoType = "memory"

ConcurrentSpec == ConcurrentInit /\ [][ConcurrentNext]_vars

\* ================================================================ claims
\* the bounds range queries are asked with: every instant of the model and
\* one before and one after them
QueryTimes == (0 - 1)..(MaxTime + 1)

ActiveBackends == {w \in Backends : Active(w)}

\* the step leaves the response of a call to op and the clock as it was (so
\* does every step that op takes)
LastCallIs(op) ==
    /\ now' = now
    /\ \A w \in ActiveBackends : resp'[w].op = op

\* the ids of the readings a range query returned
ResultIDs(res) == {res.readings[i].ID : i \in DOMAIN res.readings}

\* C1: in both backends, for every start < end and every stored reading whose
\* timestamp equals start, GetReadingsInRange(start, end) includes that
\* reading.
C1_InclusiveStart ==
    \A w \in ActiveBackends : \A r \in Stored(w, repo[w]) : \A end \in QueryTimes :
        r.Timestamp < end =>
            \A res \in GetReadingsInRange(w, repo[w], r.Timestamp, end, "ok") :
                res.err = "nil" /\ r.ID \in ResultIDs(res)

\* C2: in both backends, for every start < end and every stored reading whose
\* timestamp equals end, GetReadingsInRange(start, end) excludes that reading.
C2_ExclusiveEnd ==
    \A w \in ActiveBackends : \A r \in Stored(w, repo[w]) : \A start \in QueryTimes :
        start < r.Timestamp =>
            \A res \in GetReadingsInRange(w, repo[w], start, r.Timestamp, "ok") :
                res.err = "nil" /\ r.ID \notin ResultIDs(res)

\* what the queries of a backend return, order among equal timestamps aside
RangeAnswer(w, start, end) ==
    {[err |-> res.err,
      readings |-> {res.readings[i] : i \in DOMAIN res.readings}] :
        res \in GetReadingsInRange(w, repo[w], start, end, "ok")}

LatestAnswer(w) ==
    {[err |-> l.err,
      Timestamp |-> IF l.err = "nil" THEN l.reading.Timestamp ELSE 0] :
        l \in GetLatestReading(w, repo[w], "ok")}

\* C3: two repositories, one of each kind, that started empty and have seen
\* the same saves and sweeps at whole seconds answer every
\* GetReadingsInRange, GetLatestReading and GetReading alike.
C3_BackendParity ==
    (repoType = "both" /\ aligned) =>
        /\ \A start, end \in {t \in QueryTimes : Aligned(t)} :
              start < end => RangeAnswer("memory", start, end) = RangeAnswer("sqlite", start, end)
        /\ LatestAnswer("memory") = LatestAnswer("sqlite")
        /\ \A id \in 1..MaxID :
              GetReading("memory", repo["memory"], id, "ok")
                  = GetReading("sqlite", repo["sqlite"], id, "ok")

\* C4: in every backend, saving a reading that already has an id once more
\* leaves its id as it was and adds no second record for it.
C4_IdempotentSave ==
    [][\A ioSave \in IO :
         (LastCallIs("SaveReading") /\ SaveHeldReadingStep(ioSave)) =>
            \A w \in ActiveBackends :
                (held[w].ID # 0 /\ resp'[w].saved) =>
                    /\ held'[w].ID = held[w].ID
                    /\ Stored(w, repo'[w]) \subseteq Stored(w, repo[w]) \cup {held[w]}]_vars

\* the stored reading a returned proto reading stands for, if it is one of
\* the latest
IsStoredLatest(w, st, pr) ==
    \E r \in Stored(w, st) :
        /\ r.ID = pr.Id
        /\ r.Lux = pr.Lux
        /\ \A o \in Stored(w, st) : o.Timestamp <= r.Timestamp

\* C5: a GetCurrentLight that finds the store empty (GetLatestReading says
\* not found) reads the sensor exactly once; when the sensor hands back a
\* valid value it returns a reading with that value, and when the save
\* succeeds that reading is all the store holds.
C5_EmptyStoreFallback ==
    \A w \in ActiveBackends :
      \A sensor \in SensorOutcomes, ioLatest \in IO, ioSave \in IO :
        \A out \in GetCurrentLight(w, repo[w], now, sensor, ioLatest, ioSave) :
            (Stored(w, repo[w]) = {} /\ out.resp.latest = "notfound") =>
                /\ out.resp.sensorReads = 1
                /\ (sensor.err = "nil" /\ sensor.lux >= 0) =>
                      /\ out.resp.code = "OK"
                      /\ out.resp.reading # NoReading
                      /\ out.resp.reading.Lux = sensor.lux
                      /\ out.resp.saved =>
                            Stored(w, out.st) =
                                {[ID        |-> out.resp.reading.Id,
                                  Lux       |-> sensor.lux,
                                  Timestamp |-> now]}

\* C5 witness: in both backends the last call was a GetCurrentLight that
\* missed, read the sensor and saved what is now the only stored reading
C5_Witness ==
    /\ repoType = "both"
    /\ \A w \in Backends :
          /\ resp[w].op = "GetCurrentLight"
          /\ resp[w].latest = "notfound"
          /\ resp[w].sensorReads = 1
          /\ resp[w].saved
          /\ resp[w].reading.Lux = 500
          /\ StoredIDs(w, repo[w]) = {resp[w].reading.Id}

\* C6: a GetCurrentLight that runs while the store holds a reading reads no
\* sensor and saves nothing, and (the database answering) returns a stored
\* reading of the greatest timestamp; so it is for the GetCurrentLight that
\* comes after a RecordReading or a miss-path GetCurrentLight that saved.
C6_NoSensorWhenStored ==
    \A w \in ActiveBackends :
      \A sensor \in SensorOutcomes, ioLatest \in IO, ioSave \in IO :
        \A out \in GetCurrentLight(w, repo[w], now, sensor, ioLatest, ioSave) :
            /\ Stored(w, repo[w]) # {} =>
                  /\ out.resp.sensorReads = 0
                  /\ ~out.resp.saved
                  /\ out.st = repo[w]
                  /\ (w = "memory" \/ ioLatest = "ok") =>
                        /\ out.resp.code = "OK"
                        /\ out.resp.latest = "found"
                        /\ IsStoredLatest(w, repo[w], out.resp.reading)
            /\ (resp[w].op \in {"RecordReading", "GetCurrentLight"} /\ resp[w].saved) =>
                  out.resp.sensorReads = 0

\* C6 witness: in both backends the last call was a GetCurrentLight that
\* found a stored reading among several and read no sensor
C6_Witness ==
    /\ repoType = "both"
    /\ \A w \in Backends :
          /\ resp[w].op = "GetCurrentLight"
          /\ resp[w].latest = "found"
          /\ resp[w].sensorReads = 0
          /\ Cardinality(Stored(w, repo[w])) >= 2
          /\ IsStoredLatest(w, repo[w], resp[w].reading)

\* the error GetReading gives for a reading that was stored when a sweep with
\* the given cutoff ran
AfterSweep(w, st, r, cutoff) ==
    GetReading(w, st, r.ID, "ok").err =
        IF r.Timestamp < cutoff THEN "ErrReadingNotFound" ELSE "nil"

\* C7 (as claimed): DeleteOldReadings(age) removes exactly the stored
\* readings with timestamp < now - age and keeps the others, in both
\* backends; afterwards GetReading finds the kept ones and not the removed.
C7_DeleteExactCutoff ==
    \A w \in ActiveBackends : \A olderThan \in Ages :
        LET out == DeleteOldReadings(w, repo[w], olderThan, now, "ok")
        IN  /\ out.err = "nil"
            /\ Stored(w, out.st) =
                  {r \in Stored(w, repo[w]) : r.Timestamp >= now - olderThan}
            /\ \A r \in Stored(w, repo[w]) : AfterSweep(w, out.st, r, now - olderThan)

\* the cutoff a backend compares with: the SQLite one is now - age cut down
\* to the whole second
SweepCutoff(w, olderThan) ==
    IF w = "memory" THEN now - olderThan
    ELSE (now - olderThan) - ((now - olderThan) % TicksPerSec)

\* C7 (amended): DeleteOldReadings(age) removes exactly the stored readings
\* with timestamp < cutoff and keeps the others, where cutoff is now - age in
\* the memory backend and now - age cut down to the whole second in the
\* SQLite backend; afterwards GetReading finds the kept ones and not the
\* removed.
C7_DeleteSecondCutoff ==
    \A w \in ActiveBackends : \A olderThan \in Ages :
        LET out == DeleteOldReadings(w, repo[w], olderThan, now, "ok")
        IN  /\ out.err = "nil"
            /\ Stored(w, out.st) =
                  {r \in Stored(w, repo[w]) : r.Timestamp >= SweepCutoff(w, olderThan)}
            /\ \A r \in Stored(w, repo[w]) :
                  AfterSweep(w, out.st, r, SweepCutoff(w, olderThan))

\* the ids a backend has handed out so far
AssignedIDs(w) ==
    IF w = "memory" THEN 1..(repo[w].nextID - 1) ELSE 1..repo[w].seq

\* C7 witness: in both backends a sweep has just removed one reading and kept
\* another
C7_Witness ==
    /\ repoType = "both"
    /\ \A w \in Backends :
          /\ resp[w].op = "DeleteOldReadings"
          /\ resp[w].code = "OK"
          /\ StoredIDs(w, repo[w]) # {}
          /\ AssignedIDs(w) \ StoredIDs(w, repo[w]) # {}

\* C8: GetLatestReading says not found exactly when the store is empty, and
\* otherwise returns a stored reading whose timestamp no other stored
\* reading exceeds.
C8_LatestIsMax ==
    \A w \in ActiveBackends : \A l \in GetLatestReading(w, repo[w], "ok") :
        /\ (l.err = "ErrReadingNotFound") <=> (Stored(w, repo[w]) = {})
        /\ Stored(w, repo[w]) # {} =>
              /\ l.err = "nil"
              /\ \E r \in Stored(w, repo[w]) :
                    /\ r.ID = l.reading.ID
                    /\ r.Lux = l.reading.Lux
                    /\ \A o \in Stored(w, repo[w]) : o.Timestamp <= r.Timestamp

\* C8 witness: both backends hold readings of different timestamps and a
\* GetCurrentLight has just asked for the latest
C8_Witness ==
    /\ repoType = "both"
    /\ \A w \in Backends :
          /\ resp[w].op = "GetCurrentLight"
          /\ resp[w].latest = "found"
          /\ \E r, o \in Stored(w, repo[w]) : r.Timestamp < o.Timestamp

\* C9: whatever the order of the saves, the readings GetReadingsInRange
\* returns come in ascending order of timestamp.
C9_RangeSorted ==
    \A w \in ActiveBackends : \A start, end \in QueryTimes :
        \A res \in GetReadingsInRange(w, repo[w], start, end, "ok") :
            \A i, j \in DOMAIN res.readings :
                i < j => res.readings[i].Timestamp <= res.readings[j].Timestamp

\* C9 witness: both backends hold two readings of different timestamps inside
\* one range, and in the table the later row is the earlier reading
C9_Witness ==
    /\ repoType = "both"
    /\ \A w \in Backends :
          \E res \in GetReadingsInRange(w, repo[w], 0 - 1, MaxTime + 1, "ok") :
              \E i, j \in DOMAIN res.readings :
                  res.readings[i].Timestamp < res.readings[j].Timestamp
    /\ \E a, b \in repo["sqlite"].rows : a.id < b.id /\ a.timestamp > b.timestamp

\* every id without a stored reading is reported as not found
UnknownIDsNotFound ==
    \A w \in ActiveBackends : \A id \in (0..(MaxID + 1)) \ StoredIDs(w, repo[w]) :
        GetReading(w, repo[w], id, "ok").err = "ErrReadingNotFound"

\* a call that saved returns a non-zero id under which GetReading finds the
\* saved value
SavedIsFound ==
    \A w \in ActiveBackends :
        (resp'[w].saved /\ (resp'[w] # resp[w] \/ repo'[w] # repo[w])) =>
            /\ resp'[w].reading.Id # 0
            /\ GetReading(w, repo'[w], resp'[w].reading.Id, "ok").err = "nil"
            /\ GetReading(w, repo'[w], resp'[w].reading.Id, "ok").reading.Lux
                   = resp'[w].reading.Lux

\* a stored reading stays to be found under its id, with its value, over
\* every step that is not a sweep
FoundUntilSwept ==
    \A w \in ActiveBackends : \A r \in Stored(w, repo[w]) :
        \/ resp'[w].op = "DeleteOldReadings"
        \/ /\ GetReading(w, repo'[w], r.ID, "ok").err = "nil"
           /\ GetReading(w, repo'[w], r.ID, "ok").reading.Lux = r.Lux

\* C10: a successful save of a new reading gives it a non-zero id under which
\* GetReading returns a reading of the same value until the reading is
\* evicted; GetReading of an id that is not stored says not found.
C10_SavedReadingFound ==
    /\ []UnknownIDsNotFound
    /\ [][SavedIsFound /\ FoundUntilSwept]_vars

\* C10 witness: in both backends a RecordReading has just saved a second
\* reading, of another value than the first
C10_Witness ==
    /\ repoType = "both"
    /\ \A w \in Backends :
          /\ resp[w].op = "RecordReading"
          /\ resp[w].saved
          /\ resp[w].reading.Id \in StoredIDs(w, repo[w])
          /\ Cardinality(Stored(w, repo[w])) >= 2
          /\ \E a, b \in Stored(w, repo[w]) : a.Lux # b.Lux

\* C11: NewLightReading(v) succeeds for every number v >= 0, zero included,
\* with a reading of value v and id 0, and fails with ErrInvalidLux and no
\* reading for every v < 0.
C11_ConstructValidates ==
    \A w \in Backends :
        resp[w].op = "NewLightReading" =>
            /\ FloatGe(resp[w].arg, 0) =>
                  /\ resp[w].err = "nil"
                  /\ resp[w].value # NoReading
                  /\ resp[w].value.Lux = resp[w].arg
                  /\ resp[w].value.ID = 0
                  /\ held[w] = resp[w].value
            /\ FloatLt(resp[w].arg, 0) =>
                  /\ resp[w].err = "ErrInvalidLux"
                  /\ resp[w].value = NoReading

\* C11 witness: NewLightReading(0) has just handed back a reading of value 0
C11_Witness ==
    \A w \in Backends :
        /\ resp[w].op = "NewLightReading"
        /\ resp[w].arg = 0
        /\ resp[w].err = "nil"
        /\ held[w] # NoReading
        /\ held[w].Lux = 0

\* C12: LightCategory is Low Light for a value < 200, Medium Light for
\* 200 <= value < 2500 and High Light for value >= 2500, so that 200 is Medium
\* and 2500 is High; the three predicates agree with it.
C12_CategoryBoundaries ==
    \A w \in Backends :
        resp[w].op = "LightCategory" =>
            LET v == resp[w].arg
                c == resp[w].value
            IN  /\ FloatLt(v, 200) =>
                      c.Category = "Low Light" /\ c.IsLowLight
                          /\ ~c.IsMediumLight /\ ~c.IsHighLight
                /\ (FloatGe(v, 200) /\ FloatLt(v, 2500)) =>
                      c.Category = "Medium Light" /\ c.IsMediumLight
                          /\ ~c.IsLowLight /\ ~c.IsHighLight
                /\ FloatGe(v, 2500) =>
                      c.Category = "High Light" /\ c.IsHighLight
                          /\ ~c.IsLowLight /\ ~c.IsMediumLight

\* C12 witness: the reading of value 2500 has just been classified
C12_Witness ==
    \A w \in Backends :
        /\ resp[w].op = "LightCategory"
        /\ resp[w].arg = 2500
        /\ resp[w].value.Category = "High Light"

\* the readings the last call on backend w returned
Returned(w) ==
    IF resp[w].op = "GetHistory"
    THEN {resp[w].readings[i] : i \in DOMAIN resp[w].readings}
    ELSE IF resp[w].reading # NoReading THEN {resp[w].reading}
    ELSE {}

\* C13: in every reachable state every stored reading and every reading
\* returned by GetCurrentLight, GetHistory or RecordReading has a value >= 0,
\* whatever the sensor hands to the Recorder and the miss path and whatever
\* RecordReading is asked to record.
C13_ValuesNonNegative ==
    \A w \in ActiveBackends :
        /\ \A r \in Stored(w, repo[w]) : FloatGe(r.Lux, 0)
        /\ \A pr \in Returned(w) : FloatGe(pr.Lux, 0)

\* the lux values of a sequence of readings
LuxOf(readings) == [i \in DOMAIN readings |-> readings[i].Lux]

RECURSIVE SumOf(_)
SumOf(values) == IF values = <<>> THEN 0 ELSE Head(values) + SumOf(Tail(values))

\* the statistics are those of the values: a is their arithmetic mean, lo the
\* smallest and hi the largest of them
IsStatisticsOf(values, a, lo, hi) ==
    /\ \A i \in DOMAIN values : values[i] # NaN
    /\ a.num # NaN /\ a.num * Len(values) = SumOf(values) * a.den
    /\ \E i \in DOMAIN values : values[i] = lo
    /\ \E i \in DOMAIN values : values[i] = hi
    /\ \A i \in DOMAIN values : FloatGe(values[i], lo) /\ FloatGe(hi, values[i])
    /\ lo * a.den <= a.num /\ a.num <= hi * a.den

\* C14: when GetReadingsInRange returns a non-empty sequence, GetHistory
\* returns that sequence, as many readings as it has, with the arithmetic
\* mean of its values as average, the smallest as min and the largest as max
\* (so min <= average <= max).
C14_HistoryStatistics ==
    \A w \in ActiveBackends : \A startSec, endSec \in HistorySeconds :
        \A out \in GetHistory(w, repo[w], startSec, endSec, "ok") :
            \E res \in GetReadingsInRange(w, repo[w], UnixTime(startSec),
                                          UnixTime(endSec), "ok") :
                (res.err = "nil" /\ Len(res.readings) > 0) =>
                    /\ out.resp.code = "OK"
                    /\ Len(out.resp.readings) = Len(res.readings)
                    /\ \A i \in DOMAIN res.readings :
                          /\ out.resp.readings[i].Id = res.readings[i].ID
                          /\ out.resp.readings[i].Lux = res.readings[i].Lux
                    /\ IsStatisticsOf(LuxOf(res.readings), out.resp.AverageLux,
                                      out.resp.MinLux, out.resp.MaxLux)

\* the stored readings of backend w whose timestamp is in [start, end)
StoredInRange(w, start, end) ==
    {r \in Stored(w, repo[w]) : start <= r.Timestamp /\ r.Timestamp < end}

\* C15: when no stored reading falls in the requested range (the store may
\* be empty), GetReadingsInRange returns an empty sequence and no error, and
\* GetHistory succeeds with no readings and average, min and max all zero.
C15_EmptyHistory ==
    \A w \in ActiveBackends : \A startSec, endSec \in HistorySeconds :
        StoredInRange(w, UnixTime(startSec), UnixTime(endSec)) = {} =>
            /\ \A res \in GetReadingsInRange(w, repo[w], UnixTime(startSec),
                                              UnixTime(endSec), "ok") :
                  res.err = "nil" /\ res.readings = <<>>
            /\ \A out \in GetHistory(w, repo[w], startSec, endSec, "ok") :
                  /\ out.resp.code = "OK"
                  /\ out.resp.readings = <<>>
                  /\ out.resp.AverageLux = FloatZero
                  /\ out.resp.MinLux = 0
                  /\ out.resp.MaxLux = 0

\* C16: RecordReading of a negative value is rejected as InvalidArgument,
\* not as an internal error, and leaves the store as it was: nothing saved,
\* no id used up.
C16_RecordRejectsNegative ==
    \A w \in ActiveBackends : \A lux \in LuxInputs, ioSave \in IO :
        FloatLt(lux, 0) =>
            LET out == RecordReading(w, repo[w], now, lux, ioSave)
            IN  /\ out.resp.code = "InvalidArgument"
                /\ out.resp.reading = NoReading
                /\ ~out.resp.saved
                /\ out.st = repo[w]

\* C16 witness: a RecordReading has just been rejected on a store that holds
\* a reading
C16_Witness ==
    /\ repoType = "both"
    /\ \A w \in Backends :
          /\ resp[w].op = "RecordReading"
          /\ resp[w].code = "InvalidArgument"
          /\ Stored(w, repo[w]) # {}

\* C17: a RecordReading of a value v >= 0 that succeeds adds exactly one
\* reading, of value v, to the store and returns it with the non-zero id the
\* backend gave it and with value v; it reads no sensor.
C17_RecordAddsOne ==
    \A w \in ActiveBackends : \A lux \in LuxInputs, ioSave \in IO :
        LET out == RecordReading(w, repo[w], now, lux, ioSave)
        IN  (FloatGe(lux, 0) /\ out.resp.code = "OK") =>
                /\ out.resp.reading # NoReading
                /\ out.resp.reading.Id # 0
                /\ out.resp.reading.Id \notin StoredIDs(w, repo[w])
                /\ out.resp.reading.Lux = lux
                /\ out.resp.sensorReads = 0
                /\ Stored(w, out.st) =
                      Stored(w, repo[w]) \cup {[ID        |-> out.resp.reading.Id,
                                                Lux       |-> lux,
                                                Timestamp |-> now]}

\* C17 witness: in both backends a RecordReading(500) has just added the
\* reading it returned to a store that held one
C17_Witness ==
    /\ repoType = "both"
    /\ \A w \in Backends :
          /\ resp[w].op = "RecordReading"
          /\ resp[w].code = "OK"
          /\ resp[w].reading.Lux = 500
          /\ Cardinality(Stored(w, repo[w])) = 2
          /\ \E r \in Stored(w, repo[w]) : r.ID = resp[w].reading.Id /\ r.Lux = 500

\* C18: on the miss path of GetCurrentLight, when the sensor hands back a
\* valid value and the save fails, the call still succeeds with a reading of
\* that value and the store stays as it was.
C18_MissSaveBestEffort ==
    \A w \in ActiveBackends : \A sensor \in SensorOutcomes, ioSave \in IO :
        \A out \in GetCurrentLight(w, repo[w], now, sensor, "ok", ioSave) :
            (/\ out.resp.latest = "notfound"
             /\ sensor.err = "nil" /\ FloatGe(sensor.lux, 0)
             /\ SaveReading(w, repo[w], NewLightReading(sensor.lux, now).reading,
                            ioSave).err # "nil") =>
                /\ out.resp.code = "OK"
                /\ out.resp.reading # NoReading
                /\ out.resp.reading.Lux = sensor.lux
                /\ out.st = repo[w]

\* C18 witness: a GetCurrentLight has just answered from the sensor while
\* its save failed, and the store is still empty
C18_Witness ==
    /\ repoType = "sqlite"
    /\ resp["sqlite"].op = "GetCurrentLight"
    /\ resp["sqlite"].latest = "notfound"
    /\ resp["sqlite"].code = "OK"
    /\ resp["sqlite"].reading.Lux = 500
    /\ ~resp["sqlite"].saved
    /\ Stored("sqlite", repo["sqlite"]) = {}

\* C19: when GetLatestReading fails with an error that is not
\* ErrReadingNotFound, GetCurrentLight returns an internal error, reads no
\* sensor and saves nothing.
C19_LatestErrorIsInternal ==
    \A w \in ActiveBackends :
      \A sensor \in SensorOutcomes, ioLatest \in IO, ioSave \in IO :
        (\A l \in GetLatestReading(w, repo[w], ioLatest) :
             l.err \notin {"nil", "ErrReadingNotFound"}) =>
            \A out \in GetCurrentLight(w, repo[w], now, sensor, ioLatest, ioSave) :
                /\ out.resp.code = "Internal"
                /\ out.resp.reading = NoReading
                /\ out.resp.sensorReads = 0
                /\ ~out.resp.saved
                /\ out.st = repo[w]

\* C19 witness: a GetCurrentLight has just failed on GetLatestReading, on an
\* empty store
C19_Witness ==
    /\ repoType = "sqlite"
    /\ resp["sqlite"].op = "GetCurrentLight"
    /\ resp["sqlite"].latest = "error"
    /\ resp["sqlite"].code = "Internal"
    /\ Stored("sqlite", repo["sqlite"]) = {}

\* C20: on the miss path of GetCurrentLight, when the sensor cannot be read
\* the call returns an internal error and no reading, and nothing is saved.
C20_MissSensorFailure ==
    \A w \in ActiveBackends : \A sensor \in SensorOutcomes, ioSave \in IO :
        \A out \in GetCurrentLight(w, repo[w], now, sensor, "ok", ioSave) :
            (Stored(w, repo[w]) = {} /\ sensor.err # "nil") =>
                /\ out.resp.latest = "notfound"
                /\ out.resp.code = "Internal"
                /\ out.resp.reading = NoReading
                /\ ~out.resp.saved
                /\ out.st = repo[w]

\* C20 witness: in both backends a GetCurrentLight has just read the sensor
\* and failed, and the store is still empty
C20_Witness ==
    /\ repoType = "both"
    /\ \A w \in Backends :
          /\ resp[w].op = "GetCurrentLight"
          /\ resp[w].latest = "notfound"
          /\ resp[w].sensorReads = 1
          /\ resp[w].code = "Internal"
          /\ Stored(w, repo[w]) = {}

\* ----------------------------------------------------- claims: Recorder
\* call i of Start is in its loop or on the way into it
Running(i) == rec.pc[i] \in {"initial", "select", "sample", "cleanup"}

\* the step is the recordOnce of call i
RecordOnceOf(i) ==
    /\ rec.pc[i] \in {"initial", "sample"}
    /\ rec'.pc[i] # rec.pc[i]

\* the step's recordOnce stored nothing in backend w
NothingSaved(w) ==
    /\ repo'[w] = repo[w]
    /\ ~resp'[w].saved
    /\ resp'[w].reading = NoReading

\* C21: a call of Start goes from its beginning straight to the recordOnce
\* before the loop, and the loop first waits only after that recordOnce: it
\* reads the sensor exactly once and, when the read, the reading and the save
\* are good, adds the reading to the store.  Nothing a ticker does is needed
\* for it.
C21_ImmediateSample ==
    [][\A i \in Starts :
         /\ (rec.pc[i] = "idle" /\ rec'.pc[i] # "idle") =>
               /\ rec'.pc[i] = "initial"
               /\ repo' = repo
               /\ resp' = resp
         /\ (rec.pc[i] # "select" /\ rec'.pc[i] = "select") =>
               rec.pc[i] \in {"initial", "sample", "cleanup"}
         /\ (rec.pc[i] = "initial" /\ rec'.pc[i] # "initial") =>
               /\ rec'.pc[i] = "select"
               /\ \A w \in ActiveBackends :
                     /\ resp'[w].op = "recordOnce"
                     /\ resp'[w].sensorReads = 1
                     /\ resp'[w].saved <=> rec'.log[w] = "recorded light reading"
                     /\ resp'[w].saved =>
                           /\ StoredIDs(w, repo'[w]) =
                                  StoredIDs(w, repo[w]) \cup {resp'[w].reading.Id}
                           /\ resp'[w].reading.Id \notin StoredIDs(w, repo[w])
                     /\ ~resp'[w].saved => NothingSaved(w)
      ]_vars

\* C21 witness: the first call of Start waits in the select, its recordOnce
\* before the loop has stored the first reading of the store at time 0, and
\* nothing else has run
C21_Witness ==
    /\ rec.pc[1] = "select"
    /\ now = 0
    /\ \A w \in ActiveBackends :
          /\ rec.log[w] = "recorded light reading"
          /\ resp[w].op = "recordOnce"
          /\ StoredIDs(w, repo[w]) = {1}

\* C22: a recordOnce whose sensor read fails stores nothing, has read the
\* sensor once, and leaves the loop running, in the select; every recordOnce
\* of a later ticker case reads the sensor again.
C22_SensorFailureSkipsTick ==
    [][\A i \in Starts :
         /\ (RecordOnceOf(i) /\ \E w \in ActiveBackends :
                                    rec'.log[w] = "failed to read sensor") =>
               /\ rec'.pc[i] = "select"
               /\ \A w \in ActiveBackends :
                     /\ NothingSaved(w)
                     /\ resp'[w].sensorReads = 1
         /\ (rec.pc[i] = "sample" /\ rec'.pc[i] # "sample") =>
               \A w \in ActiveBackends :
                   resp'[w].op = "recordOnce" /\ resp'[w].sensorReads = 1
      ]_vars

\* C22 witness: a recordOnce of a ticker case has just failed to read the
\* sensor; the store holds the reading of an earlier sample and the loop
\* waits in the select
C22_Witness ==
    /\ rec.pc[1] = "select"
    /\ rec.pc[2] = "idle"
    /\ ~rec.cancelled
    /\ \A w \in ActiveBackends :
          /\ rec.log[w] = "failed to read sensor"
          /\ Cardinality(Stored(w, repo[w])) = 1

\* C23: a recordOnce whose save fails leaves the repository as it was (no
\* second save), returns nothing to the loop, and leaves the loop running, in
\* the select.
C23_SaveFailureSkipsTick ==
    [][\A i \in Starts :
         (RecordOnceOf(i) /\ \E w \in ActiveBackends :
                                 rec'.log[w] = "failed to save reading") =>
               /\ rec'.pc[i] = "select"
               /\ \A w \in ActiveBackends :
                     /\ NothingSaved(w)
                     /\ resp'[w].sensorReads = 1
      ]_vars

\* C23 witness: a recordOnce has just failed to save; ids were left to hand
\* out and the loop waits in the select
C23_Witness ==
    /\ rec.pc[1] = "select"
    /\ ~rec.cancelled
    /\ CanSave
    /\ \A w \in ActiveBackends : rec.log[w] = "failed to save reading"

\* C24: the body of the cleanup case is one DeleteOldReadings with the 30-day
\* window and no sensor read; whether it fails or not, the loop goes back
\* into the select, where every case can be taken again.
C24_CleanupTick ==
    [][\A i \in Starts :
         (rec.pc[i] = "cleanup" /\ rec'.pc[i] # "cleanup") =>
               /\ rec'.pc[i] = "select"
               /\ \A w \in ActiveBackends :
                     /\ resp'[w].op = "DeleteOldReadings"
                     /\ resp'[w].sensorReads = 0
                     /\ \E io \in IO :
                           LET out == DeleteOldReadings(w, repo[w], RetentionWindow, now, io)
                           IN  /\ repo'[w] = out.st
                               /\ (out.err = "nil") <=>
                                      (rec'.log[w] = "deleted readings older than 30 days")
                               /\ (out.err # "nil") <=>
                                      (rec'.log[w] = "failed to delete old readings")
      ]_vars

\* C24 witness: a sweep of the cleanup case has just failed with readings in
\* the store, and the loop waits in the select
C24_Witness ==
    /\ rec.pc[1] = "select"
    /\ ~rec.cancelled
    /\ \A w \in ActiveBackends :
          /\ rec.log[w] = "failed to delete old readings"
          /\ Stored(w, repo[w]) # {}

\* C24 witness of the other outcome: a sweep of the cleanup case has removed
\* the only reading of the store
C24_SweptWitness ==
    /\ rec.pc[1] = "select"
    /\ \A w \in ActiveBackends :
          /\ rec.log[w] = "deleted readings older than 30 days"
          /\ Stored(w, repo[w]) = {}
          /\ AssignedIDs(w) # {}

\* C25: once ctx is cancelled, every call of Start that is running returns in
\* the end, whatever the tickers do.
C25_CancelStops ==
    \A i \in Starts : (rec.cancelled /\ Running(i)) ~> (rec.pc[i] = "stopped")

\* C25 witness: the context is cancelled and the first call of Start has just
\* returned
C25_Witness ==
    /\ rec.cancelled
    /\ rec.pc[1] = "stopped"
    /\ \A w \in ActiveBackends : rec.log[w] = "stopping background recorder"

\* the state of the Recorder: Idle before any call of Start, Running while a
\* call of Start is in its loop, Stopped when every call that began returned
RecorderState ==
    IF \A i \in Starts : rec.pc[i] = "idle" THEN "Idle"
    ELSE IF \E i \in Starts : Running(i) THEN "Running"
    ELSE "Stopped"

\* RecorderState in the next state
RecorderStateNext ==
    IF \A i \in Starts : rec'.pc[i] = "idle" THEN "Idle"
    ELSE IF \E i \in Starts : rec'.pc[i] \in {"initial", "select", "sample", "cleanup"}
         THEN "Running"
    ELSE "Stopped"

\* C26: the Recorder goes from Idle to Running to Stopped only: a Stopped
\* Recorder stays Stopped, and no call of Start begins on a Recorder that is
\* Running or Stopped.
C26_StartOnce ==
    [][/\ RecorderState = "Idle" => RecorderStateNext \in {"Idle", "Running"}
       /\ RecorderState = "Running" => RecorderStateNext \in {"Running", "Stopped"}
       /\ RecorderState = "Stopped" => RecorderStateNext = "Stopped"
       /\ RecorderState \in {"Running", "Stopped"} =>
             \A i \in Starts : rec.pc[i] = "idle" => rec'.pc[i] = "idle"
      ]_vars

\* ------------------------------------------------- claims: ids and ties
\* the ids the repository st of backend w has handed out: the memory backend
\* counts them in nextID, SQLite in the AUTOINCREMENT mark
IssuedIDs(w, st) ==
    IF w = "memory" THEN 1..(st.nextID - 1) ELSE 1..st.seq

\* a reading that was never saved, built now
UnsavedReading == NewLightReading(100, now).reading

\* C27: the id a backend gives to a newly saved reading is larger than every
\* id it has handed out before and than every id in the store, also after a
\* sweep; the first id of the memory backend is 1; the ids handed out are
\* never forgotten, and every stored id is one of them.
C27_IdsIncrease ==
    [][\A w \in ActiveBackends :
         LET sv == SaveReading(w, repo[w], UnsavedReading, "ok")
         IN  /\ sv.err = "nil"
             /\ \A old \in IssuedIDs(w, repo[w]) \cup StoredIDs(w, repo[w]) :
                    sv.reading.ID > old
             /\ IssuedIDs(w, sv.st) = IssuedIDs(w, repo[w]) \cup {sv.reading.ID}
             /\ (w = "memory" /\ IssuedIDs(w, repo[w]) = {}) => sv.reading.ID = 1
             /\ StoredIDs(w, repo[w]) \subseteq IssuedIDs(w, repo[w])
             /\ IssuedIDs(w, repo[w]) \subseteq IssuedIDs(w, repo'[w])
             /\ (repo'[w] # repo[w] /\ resp'[w].saved /\ resp'[w].op # "SaveReading") =>
                    resp'[w].reading.Id \notin IssuedIDs(w, repo[w])
      ]_vars

\* C27 witness: in both backends the reading with id 1 was swept, and the
\* reading saved after the sweep got id 2
C27_Witness ==
    /\ repoType = "both"
    /\ \A w \in Backends :
          /\ resp[w].saved
          /\ resp[w].reading.Id = 2
          /\ StoredIDs(w, repo[w]) = {2}

\* C29: GetLatestReading has one answer for each content of the store, also
\* when several readings share the largest timestamp.
C29_LatestDeterministic ==
    \A w \in ActiveBackends :
        Cardinality(GetLatestReading(w, repo[w], "ok")) = 1

\* C28: in the memory backend a caller's later writes to a reading it saved
\* or was given change nothing of what GetReading, GetLatestReading and
\* GetReadingsInRange return.
C28_MemorySnapshots ==
    [][(Active("memory") /\ resp'["memory"].op = "CallerWrite") =>
          /\ \A id \in 1..MaxID :
                GetReading("memory", repo'["memory"], id, "ok") =
                    GetReading("memory", repo["memory"], id, "ok")
          /\ GetLatestReading("memory", repo'["memory"], "ok") =
                 GetLatestReading("memory", repo["memory"], "ok")
          /\ \A start, end \in QueryTimes :
                GetReadingsInRange("memory", repo'["memory"], start, end, "ok") =
                    GetReadingsInRange("memory", repo["memory"], start, end, "ok")
      ]_vars

\* C30: closing the SQLite repository and opening it again on the same path
\* leaves the table as it was: GetReading, GetReadingsInRange and
\* GetLatestReading return what they returned before the close, with the
\* same ids and values, and the id of the next new reading is larger than
\* every id handed out before the close.
C30_SqliteSurvivesRestart ==
    [][(Active("sqlite") /\ resp'["sqlite"].op = "Restart") =>
          /\ Stored("sqlite", repo'["sqlite"]) = Stored("sqlite", repo["sqlite"])
          /\ \A id \in 1..MaxID :
                GetReading("sqlite", repo'["sqlite"], id, "ok") =
                    GetReading("sqlite", repo["sqlite"], id, "ok")
          /\ GetLatestReading("sqlite", repo'["sqlite"], "ok") =
                 GetLatestReading("sqlite", repo["sqlite"], "ok")
          /\ \A start, end \in QueryTimes :
                GetReadingsInRange("sqlite", repo'["sqlite"], start, end, "ok") =
                    GetReadingsInRange("sqlite", repo["sqlite"], start, end, "ok")
          /\ LET sv == SaveReading("sqlite", repo'["sqlite"], UnsavedReading, "ok")
             IN  \A old \in IssuedIDs("sqlite", repo["sqlite"])
                              \cup StoredIDs("sqlite", repo["sqlite"]) :
                     sv.reading.ID > old
      ]_vars

\* C30 witness: the SQLite repository was just opened again on a file that
\* holds a reading with id 2, the reading with id 1 having been swept before
\* the close
C30_Witness ==
    /\ Active("sqlite")
    /\ resp["sqlite"].op = "Restart"
    /\ StoredIDs("sqlite", repo["sqlite"]) = {2}
    /\ GetReading("sqlite", repo["sqlite"], 2, "ok").err = "nil"

C36_CloseAfterStopped ==
    proc.closed => \A i \in Starts : ~Running(i)

\* C38: a call of Start that has returned stays returned and does nothing
\* more: every later change of the store or of a response is the work of a
\* handler (or of another call of Start), whatever the tickers do.
C38_StoppedStaysQuiet ==
    [][\A i \in Starts :
         rec.pc[i] = "stopped" =>
            /\ rec'.pc[i] = "stopped"
            /\ (repo' # repo \/ resp' # resp) =>
                  \/ /\ rec' = rec
                     /\ \A w \in ActiveBackends :
                           resp'[w].op = "RecordReading"
                  \/ \E j \in Starts \ {i} : rec'.pc[j] # rec.pc[j]
      ]_vars

\* C38 witness: the one call of Start has returned, and a RecordReading
\* served afterwards has stored the second reading
C38_Witness ==
    /\ rec.pc[1] = "stopped"
    /\ rec.pc[2] = "idle"
    /\ \A w \in ActiveBackends :
          /\ rec.log[w] = "stopping background recorder"
          /\ resp[w].op = "RecordReading"
          /\ resp[w].saved
          /\ Cardinality(Stored(w, repo[w])) = 2

\* ---------------------------------------------- claims: goroutines at once
\* goroutines inside ReadLux
InReadLux == {p \in Procs : proc.g[p].pc = "sensor"}

\* goroutines inside the critical section of SaveReading or DeleteOldReadings
InWriteSection == {p \in Procs : proc.g[p].pc \in {"save", "sweep"}}

\* goroutines inside the critical section of GetLatestReading or
\* GetReadingsInRange
InReadSection == {p \in Procs : proc.g[p].pc \in {"latest", "range"}}

\* C32: with the Recorder and the handlers running in one process, ReadLux
\* is in progress for at most one caller at any time.
C32_OneSensorReadAtATime == Cardinality(InReadLux) <= 1

\* C33: in the memory repository SaveReading and DeleteOldReadings run alone
\* in their critical section, the reads share theirs only with each other,
\* the store changes only by the goroutine in the write section, and it does
\* not change while a read is inside: a read sees the store before or after
\* a save or a sweep, never a partly swept one.
C33_ExclusiveWritesSharedReads ==
    [][/\ Cardinality(InWriteSection) <= 1
       /\ InWriteSection # {} => InReadSection = {}
       /\ InReadSection # {} => repo' = repo
       /\ repo' # repo => InWriteSection # {}]_vars

\* C33 witness: a sweep holds the lock, has deleted one old reading and has
\* one more to delete.
C33_Witness ==
    /\ proc.g["recorder"].pc = "sweep"
    /\ StillOld("recorder") # {}
    /\ Cardinality(DOMAIN repo["memory"].readings) < repo["memory"].nextID - 1
    /\ proc.mu.w

\* no reading was deleted yet: every id given is stored
NoEviction == DOMAIN repo["memory"].readings = 1..(repo["memory"].nextID - 1)

\* the GetCurrentLight call of p found no reading, read the sensor, saved and
\* returned
MissedAndReturned(p) ==
    /\ proc.g[p].op = "GetCurrentLight"
    /\ proc.g[p].latest = "notfound"
    /\ proc.g[p].pc = "idle"
    /\ proc.g[p].result # NoReading
    /\ proc.g[p].result.ID # 0

\* C35: GetCurrentLight calls that run at the same time on an empty store
\* read the sensor once, store one reading and all return that reading.
C35_OneReadingForConcurrentMisses ==
    NoEviction =>
        \A p \in Handlers, q \in Handlers :
            MissedAndReturned(p) /\ MissedAndReturned(q)
                => proc.g[p].result = proc.g[q].result
\* ------------------------------------------------ claims: stored readings
\* the readings of backend w in store st, by id
ReadingsByID(w, st) ==
    [id \in StoredIDs(w, st) |-> GetReading(w, st, id, "ok").reading]

\* C37: in the memory repository an id that SaveReading assigns is never the
\* id of a reading already in the store, and saving a new reading leaves
\* every stored reading in the store as it was, also when callers save
\* readings whose ID they set themselves.
C37_AssignedIdIsFresh ==
    [][Active("memory") /\ repo'["memory"].nextID # repo["memory"].nextID
         => /\ repo["memory"].nextID \notin DOMAIN repo["memory"].readings
            /\ \A id \in DOMAIN repo["memory"].readings :
                  /\ id \in DOMAIN repo'["memory"].readings
                  /\ repo'["memory"].readings[id] = repo["memory"].readings[id]]_vars

\* C34: without a sweep every stored reading stays retrievable by its id
\* with the value and the timestamp it was stored with, whatever sequence of
\* SaveReading, reads, GetCurrentLight, GetHistory and RecordReading runs.
C34_StoredReadingsStay ==
    [][\A w \in ActiveBackends :
          \A id \in StoredIDs(w, repo[w]) :
              /\ id \in StoredIDs(w, repo'[w])
              /\ ReadingsByID(w, repo'[w])[id] = ReadingsByID(w, repo[w])[id]]_vars
\* -------------------------------------------------- claims: the categories
\* the predicates that hold in the answer c of a LightCategory call, by the
\* name of their category
HoldingCategories(c) ==
    {n \in {"Low Light", "Medium Light", "High Light"} :
        \/ n = "Low Light" /\ c.IsLowLight
        \/ n = "Medium Light" /\ c.IsMediumLight
        \/ n = "High Light" /\ c.IsHighLight}

\* C39: for every value >= 0 exactly one of IsLowLight, IsMediumLight and
\* IsHighLight holds and LightCategory returns the name of that one.
C39_CategoriesPartition ==
    \A w \in Backends :
        resp[w].op = "LightCategory" /\ FloatGe(resp[w].arg, 0)
            => HoldingCategories(resp[w].value) = {resp[w].value.Category}

\* C39 witness: the reading of value 200, the first Medium value, has just
\* been classified and one predicate holds for it
C39_Witness ==
    \A w \in Backends :
        /\ resp[w].op = "LightCategory"
        /\ resp[w].arg = 200
        /\ HoldingCategories(resp[w].value) = {"Medium Light"}
\* --------------------------------------------------------- claims: reads
ReadOps == {"GetReading", "GetLatestReading", "GetReadingsInRange", "GetHistory"}

\* C40: GetReading, GetLatestReading, GetReadingsInRange and GetHistory leave
\* the store as it was (the stored readings with their values, timestamps
\* and ids, and the next id), whether they succeed, find nothing or return
\* an empty sequence.
C40_ReadsLeaveStore ==
    [][\A w \in ActiveBackends :
          now' = now /\ resp'[w].op \in ReadOps => repo'[w] = repo[w]]_vars

\* C40 witness: GetReading has just found nothing under the id it was asked
\* for, in a store that holds a reading
C40_Witness ==
    \A w \in ActiveBackends :
        /\ resp[w].op = "GetReading"
        /\ resp[w].code = "ErrReadingNotFound"
        /\ Stored(w, repo[w]) # {}
====
